---------------------------- MODULE Spec2Model ----------------------------
(***************************************************************************)
(* research-clerk: the store over the local Zotero database               *)
(* (backends/local_sqlite.py), the tools that open one session per call    *)
(* (tools.py, config.py) and the two batch appliers (apply_suggestions.py, *)
(* apply_reorganization.py).                                               *)
(*                                                                         *)
(* Strings are sequences of one-character strings, so that split('/') and  *)
(* '/'.join are computed and not assumed.  A JSON value is a record with a *)
(* type field t.  A database is a record of tables, each a set of rows.    *)
(***************************************************************************)
EXTENDS Integers, Sequences, FiniteSets, TLC

VARIABLES
    owner,           \* TRUE while the owning application holds the database
    clock,           \* the instant datetime.now() returns
    db,              \* the database file: the committed tables
    backups,         \* backups directory: file name (timestamp) -> copied tables
    conn,            \* self.conn: "none", "ro" or "rw"
    backup_path,     \* self.backup_path: a file name, or NoPath
    tx,              \* the tables as the connection sees (or last saw) them
    opened,          \* the database as it was when the session connected
    gate,            \* number of write sessions that passed the safety gate
    prog,            \* the running program: "none", "tool", "suggestions", "reorganization", "paths"
    pc,              \* its position
    call,            \* the tool call being served
    data,            \* the batch descriptor that was loaded
    idx,             \* index of the next batch entry
    existing_collections, \* the snapshot returned by list_collections()
    collection_keys, \* path -> key dictionary of the batch (new_collection_keys for moves)
    exc,             \* the exception leaving the session scope, or "none"
    outcome,         \* how the last program ended
    log,             \* per batch entry: what was done for it
    started          \* number of programs started

vars == <<owner, clock, db, backups, conn, backup_path, tx, opened, gate, prog,
          pc, call, data, idx, existing_collections, collection_keys, exc,
          outcome, log, started>>

-----------------------------------------------------------------------------
(* Bounds of the model *)

\* instants 0..MaxClock of the clock
MaxClock == 2
\* tool calls in one behaviour
MaxCalls == 2
\* entries in a batch descriptor
MaxBatch == 2

-----------------------------------------------------------------------------
(* Strings *)

Slash == "/"

\* str.split('/')
RECURSIVE split(_)
split(s) ==
    IF \A i \in 1..Len(s) : s[i] # Slash
    THEN <<s>>
    ELSE LET i == CHOOSE i \in 1..Len(s) :
                      s[i] = Slash /\ \A j \in 1..(i - 1) : s[j] # Slash
         IN  <<SubSeq(s, 1, i - 1)>> \o split(SubSeq(s, i + 1, Len(s)))

\* '/'.join(parts)
RECURSIVE join(_)
join(parts) ==
    IF Len(parts) = 0 THEN <<>>
    ELSE IF Len(parts) = 1 THEN parts[1]
    ELSE parts[1] \o <<Slash>> \o join(Tail(parts))

\* str.count('/')
count_slash(s) == Cardinality({i \in 1..Len(s) : s[i] = Slash})

\* the whitespace str.strip() removes
Blank == {" ", "\t", "\n"}

\* str.strip(): the string without its leading and trailing whitespace
RECURSIVE strip(_)
strip(s) ==
    IF Len(s) = 0 THEN s
    ELSE IF s[1] \in Blank THEN strip(Tail(s))
    ELSE IF s[Len(s)] \in Blank THEN strip(SubSeq(s, 1, Len(s) - 1))
    ELSE s

\* the order of the characters (the collation of ORDER BY collectionName)
Alphabet == <<" ", "/", "0", "1", "2", "3", "4", "5", "6", "7", "8", "9",
              "A", "B", "C", "D", "K", "Z", "a", "b", "c", "d", "x", "y">>

Rank(ch) == CHOOSE i \in 1..Len(Alphabet) : Alphabet[i] = ch

RECURSIVE str_less(_, _)
str_less(a, b) ==
    IF Len(b) = 0 THEN FALSE
    ELSE IF Len(a) = 0 THEN TRUE
    ELSE IF a[1] = b[1] THEN str_less(Tail(a), Tail(b))
    ELSE Rank(a[1]) < Rank(b[1])

Upper == {"A", "B", "C", "D", "K", "Z"}
Digit == {"0", "1", "2", "3", "4", "5", "6", "7", "8", "9"}

\* the length the pattern ^[A-Z0-9]{8}$ asks for
KeyLen == 8

\* re.match(r'^[A-Z0-9]{8}$', s): $ matches at the end of the string and
\* before a newline that ends it
matches_item_key(s) ==
    /\ Len(s) = KeyLen \/ (Len(s) = KeyLen + 1 /\ s[Len(s)] = "\n")
    /\ \A i \in 1..KeyLen : s[i] \in Upper \cup Digit

-----------------------------------------------------------------------------
(* The database: backends/local_sqlite.py *)

\* Python's None: no string, the empty string <<>> included, is equal to it
None == <<"None">>

\* bool(x) of a value that is None or a string
truthy(x) == x # None /\ x # <<>>

\* item keys of the catalog and of the descriptors
ItemA == <<"A", "B", "C", "D", "1", "2", "3", "4">>
ItemZ == <<"Z", "Z", "Z", "Z", "9", "9", "9", "9">>
ItemLower == <<"a", "b", "c", "d", "1", "2", "3", "4">>
ItemB == <<"A", "B", "C", "D", "5", "6", "7", "8">>

\* a collection key that names no collection
KeyZ == <<"Z", "Z", "Z", "Z", "0", "0", "0", "0">>

\* generate_key(): for _ in range(8)
GeneratedKeyLen == 8

\* the keys generate_key() draws from, in the order the model hands them out
KeyPool == <<
    <<"K", "0", "0", "0", "0", "0", "0", "1">>,
    <<"K", "0", "0", "0", "0", "0", "0", "2">>,
    <<"K", "0", "0", "0", "0", "0", "0", "3">>,
    <<"K", "0", "0", "0", "0", "0", "0", "4">>,
    <<"K", "0", "0", "0", "0", "0", "0", "5">>,
    <<"K", "0", "0", "0", "0", "0", "0", "6">>,
    <<"K", "0", "0", "0", "0", "0", "0", "7">>,
    <<"K", "0", "0", "0", "0", "0", "0", "8">>,
    <<"K", "0", "0", "0", "0", "0", "0", "9">> >>

\* generate_key(): a random key.  No code reads the characters of a key, so
\* the keys no collection carries are interchangeable and the first of them
\* stands for the draw.
generate_key(c) ==
    LET used == {r.key : r \in c.collections}
        i == CHOOSE i \in 1..Len(KeyPool) :
                 /\ KeyPool[i] \notin used
                 /\ \A j \in 1..(i - 1) : KeyPool[j] \in used
    IN  KeyPool[i]

Max(S) == CHOOSE m \in S : \A n \in S : n <= m

\* the element of a set of one element: The({e(x) : x \in {v}}) is e of
\* the value of v, v computed once, as a local variable of the code is
The(S) == CHOOSE x \in S : TRUE

\* a rowid that some row of the table already has
rowid_reused(ids) == IF ids = {} THEN 1 ELSE Max(ids)

\* the rowid SQLite gives a row inserted into an INTEGER PRIMARY KEY table
next_rowid(ids) == IF ids = {} THEN 1 ELSE Max(ids) + 1

\* what an operation hands back: the tables, the exception raised and the value
Ret(c, e, v) == [cat |-> c, exc |-> e, ret |-> v]

\* a connection that lets every statement through
can_write_any(mode) == TRUE

\* conn.execute of an INSERT or DELETE: a connection opened with mode=ro
\* refuses it (sqlite3.OperationalError), any other applies it
can_write(mode) == mode = "rw"

\* cursor.fetchone() of SELECT collectionID FROM collections WHERE key = ?:
\* the first of the rows with the key, which SQLite reaches in rowid order
first_row(rows) == CHOOSE r \in rows : \A q \in rows : r.collectionID <= q.collectionID

\* a create_collection that stores the first key of the pool whatever
\* generate_key() drew
create_collection_first_key(key, unique, c, mode, name, parent_key) ==
    LET parents == {r \in c.collections : r.key = parent_key}
        row == [collectionID |-> next_rowid({r.collectionID : r \in c.collections}),
                collectionName |-> name,
                parentCollectionID |-> IF truthy(parent_key)
                                       THEN first_row(parents).collectionID
                                       ELSE 0,
                key |-> KeyPool[1]]
    IN  IF truthy(parent_key) /\ parents = {}
        THEN Ret(c, "ValueError", None)
        ELSE Ret([c EXCEPT !.collections = @ \cup {row}], "none", key)

\* LocalSQLiteBackend.create_collection when generate_key() returns key.  The
\* code does not compare key with the keys in the table; the schema of the
\* table is not part of the repository, so the INSERT of a key some row has
\* raises sqlite3.IntegrityError if the table declares the key UNIQUE
\* (unique) and adds a second row with that key if it does not.
create_collection_with(key, unique, c, mode, name, parent_key) ==
    LET parents == {r \in c.collections : r.key = parent_key}
        parent_id == IF truthy(parent_key)
                     THEN first_row(parents).collectionID
                     ELSE 0
        row == [collectionID |-> next_rowid({r.collectionID : r \in c.collections}),
                collectionName |-> name,
                parentCollectionID |-> parent_id,
                key |-> key]
    IN  IF truthy(parent_key) /\ parents = {}
        THEN Ret(c, "ValueError", None)
        ELSE IF ~can_write(mode)
        THEN Ret(c, "OperationalError", None)
        ELSE IF unique /\ \E r \in c.collections : r.key = key
        THEN Ret(c, "IntegrityError", None)
        ELSE Ret([c EXCEPT !.collections = @ \cup {row}], "none", key)

\* a create_collection that puts the collection under the root when the
\* parent key names no collection
create_collection_lenient(c, mode, name, parent_key) ==
    LET parents == {r \in c.collections : r.key = parent_key}
        row == [collectionID |-> next_rowid({r.collectionID : r \in c.collections}),
                collectionName |-> name,
                parentCollectionID |-> IF parents # {} THEN first_row(parents).collectionID
                                       ELSE 0,
                key |-> generate_key(c)]
    IN  IF ~can_write(mode) THEN Ret(c, "OperationalError", None)
        ELSE Ret([c EXCEPT !.collections = @ \cup {row}], "none", row.key)

\* LocalSQLiteBackend.create_collection with a draw no collection carries
create_collection(c, mode, name, parent_key) ==
    create_collection_with(generate_key(c), FALSE, c, mode, name, parent_key)

\* COUNT(*) over the links of one collection
next_order_index_count(c, collection_id) ==
    Cardinality({m \in c.collectionItems : m.collectionID = collection_id})

\* COALESCE(MAX(orderIndex), -1) + 1 over the links of one collection
next_order_index(c, collection_id) ==
    LET used == {l.orderIndex : l \in {m \in c.collectionItems :
                                         m.collectionID = collection_id}}
    IN  IF used = {} THEN 0 ELSE Max(used) + 1

\* an add_to_collection that does not look for the link before it inserts
add_to_collection_unchecked(c, mode, item_key, collection_key) ==
    LET item_rows == {r \in c.items : r.key = item_key}
        coll_rows == {r \in c.collections : r.key = collection_key}
        row == [collectionID |-> first_row(coll_rows).collectionID,
                itemID |-> (CHOOSE r \in item_rows : TRUE).itemID,
                orderIndex |-> next_order_index(c, first_row(coll_rows).collectionID)]
    IN  IF item_rows = {} \/ coll_rows = {} THEN Ret(c, "ValueError", None)
        ELSE IF ~can_write(mode) THEN Ret(c, "OperationalError", None)
        ELSE Ret([c EXCEPT !.collectionItems = @ \cup {row}], "none", None)

\* LocalSQLiteBackend.add_to_collection
add_to_collection(c, mode, item_key, collection_key) ==
    LET item_rows == {r \in c.items : r.key = item_key}
        coll_rows == {r \in c.collections : r.key = collection_key}
        item_id == (CHOOSE r \in item_rows : TRUE).itemID
        collection_id == first_row(coll_rows).collectionID
        row == [collectionID |-> collection_id, itemID |-> item_id,
                orderIndex |-> next_order_index(c, collection_id)]
    IN  IF item_rows = {} THEN Ret(c, "ValueError", None)
        ELSE IF coll_rows = {} THEN Ret(c, "ValueError", None)
        ELSE IF \E l \in c.collectionItems :
                    l.itemID = item_id /\ l.collectionID = collection_id
        THEN Ret(c, "none", None)
        ELSE IF ~can_write(mode) THEN Ret(c, "OperationalError", None)
        ELSE Ret([c EXCEPT !.collectionItems = @ \cup {row}], "none", None)

\* a turn of the loop of add_tags that inserts the association without
\* looking for it
add_one_tag_unchecked(c, mode, item_id, tag_name) ==
    LET tag_rows == {t \in c.tags : t.name = tag_name}
        new_id == next_rowid({t.tagID : t \in c.tags})
        tag_id == IF tag_rows # {} THEN (CHOOSE t \in tag_rows : TRUE).tagID
                  ELSE new_id
        c1 == IF tag_rows # {} THEN c
              ELSE [c EXCEPT !.tags = @ \cup {[tagID |-> new_id, name |-> tag_name]}]
    IN  IF ~can_write(mode) THEN Ret(c, "OperationalError", None)
        ELSE Ret([c1 EXCEPT !.itemTags = @ \cup
                     {[itemID |-> item_id, tagID |-> tag_id,
                       rowid |-> next_rowid({it.rowid : it \in c1.itemTags})]}],
                 "none", None)

\* the body of the loop of add_tags for one tag name; a row of itemTags
\* carries its rowid, so that two rows of one pair are two rows
add_one_tag(c, mode, item_id, tag_name) ==
    LET tag_rows == {t \in c.tags : t.name = tag_name}
        new_id == next_rowid({t.tagID : t \in c.tags})
        tag_id == IF tag_rows # {} THEN (CHOOSE t \in tag_rows : TRUE).tagID
                  ELSE new_id
        c1 == IF tag_rows # {} THEN c
              ELSE [c EXCEPT !.tags = @ \cup {[tagID |-> new_id, name |-> tag_name]}]
    IN  IF tag_rows = {} /\ ~can_write(mode) THEN Ret(c, "OperationalError", None)
        ELSE IF \E it \in c1.itemTags : it.itemID = item_id /\ it.tagID = tag_id
        THEN Ret(c1, "none", None)
        ELSE IF ~can_write(mode) THEN Ret(c1, "OperationalError", None)
        ELSE Ret([c1 EXCEPT !.itemTags = @ \cup
                     {[itemID |-> item_id, tagID |-> tag_id,
                       rowid |-> next_rowid({it.rowid : it \in c1.itemTags})]}],
                 "none", None)

RECURSIVE add_tags_loop(_, _, _, _)
add_tags_loop(c, mode, item_id, tag_names) ==
    IF Len(tag_names) = 0 THEN Ret(c, "none", None)
    ELSE LET r == add_one_tag(c, mode, item_id, Head(tag_names))
         IN  IF r.exc # "none" THEN r
             ELSE add_tags_loop(r.cat, mode, item_id, Tail(tag_names))

\* LocalSQLiteBackend.add_tags
add_tags(c, mode, item_key, tag_names) ==
    LET item_rows == {r \in c.items : r.key = item_key}
    IN  IF item_rows = {} THEN Ret(c, "ValueError", None)
        ELSE add_tags_loop(c, mode, (CHOOSE r \in item_rows : TRUE).itemID, tag_names)

\* a remove_from_collection that deletes the links of the rows with the two
\* keys and raises nothing when a key names no row
remove_from_collection_unchecked(c, mode, item_key, collection_key) ==
    IF ~can_write(mode) THEN Ret(c, "OperationalError", None)
    ELSE Ret([c EXCEPT !.collectionItems =
                 {l \in @ :
                     ~(/\ \E i \in c.items : i.key = item_key /\ i.itemID = l.itemID
                       /\ \E r \in c.collections :
                             r.key = collection_key /\ r.collectionID = l.collectionID)}],
             "none", None)

\* an unlink that also deletes the collection once it holds no item
remove_from_collection_pruning(c, mode, item_key, collection_key) ==
    LET item_rows == {r \in c.items : r.key = item_key}
        coll_rows == {r \in c.collections : r.key = collection_key}
        item_id == (CHOOSE r \in item_rows : TRUE).itemID
        collection_id == first_row(coll_rows).collectionID
        links == {l \in c.collectionItems :
                    ~(l.itemID = item_id /\ l.collectionID = collection_id)}
    IN  IF item_rows = {} THEN Ret(c, "ValueError", None)
        ELSE IF coll_rows = {} THEN Ret(c, "ValueError", None)
        ELSE IF ~can_write(mode) THEN Ret(c, "OperationalError", None)
        ELSE Ret([c EXCEPT !.collectionItems = links,
                           !.collections =
                               IF \E l \in links : l.collectionID = collection_id
                               THEN @
                               ELSE {r \in @ : r.collectionID # collection_id}],
                 "none", None)

\* LocalSQLiteBackend.remove_from_collection
remove_from_collection(c, mode, item_key, collection_key) ==
    LET item_rows == {r \in c.items : r.key = item_key}
        coll_rows == {r \in c.collections : r.key = collection_key}
        item_id == (CHOOSE r \in item_rows : TRUE).itemID
        collection_id == first_row(coll_rows).collectionID
    IN  IF item_rows = {} THEN Ret(c, "ValueError", None)
        ELSE IF coll_rows = {} THEN Ret(c, "ValueError", None)
        ELSE IF ~can_write(mode) THEN Ret(c, "OperationalError", None)
        ELSE Ret([c EXCEPT !.collectionItems =
                      {l \in @ : ~(l.itemID = item_id /\ l.collectionID = collection_id)}],
                 "none", None)

\* the rows of collections that are not in deletedCollections, in the order of
\* ORDER BY collectionName (rows of one name in rowid order)
row_before(a, b) ==
    \/ str_less(a.collectionName, b.collectionName)
    \/ /\ a.collectionName = b.collectionName
       /\ a.collectionID < b.collectionID

RECURSIVE ordered_rows(_)
ordered_rows(rows) ==
    IF rows = {} THEN <<>>
    ELSE LET first == CHOOSE r \in rows : \A q \in rows \ {r} : row_before(r, q)
         IN  <<first>> \o ordered_rows(rows \ {first})

\* get_path of list_collections, over the rows the query returned
RECURSIVE get_path(_, _)
get_path(rows, row) ==
    LET parents == {r \in rows : r.collectionID = row.parentCollectionID}
        parent_path == get_path(rows, CHOOSE r \in parents : TRUE)
    IN  IF row.parentCollectionID # 0 /\ parents # {}
        THEN IF parent_path # <<>>
             THEN parent_path \o <<Slash>> \o row.collectionName
             ELSE row.collectionName
        ELSE row.collectionName

\* collections[key] = {...} for the rows in order: a key keeps the place of
\* its first row and the value of its last; the values in insertion order
dict_values(seq) ==
    LET firsts == {i \in 1..Len(seq) : \A j \in 1..(i - 1) : seq[j].key # seq[i].key}
        nth(n) == CHOOSE i \in firsts : Cardinality({j \in firsts : j < i}) = n - 1
    IN  [n \in 1..Cardinality(firsts) |->
            seq[Max({j \in 1..Len(seq) : seq[j].key = seq[nth(n)].key})]]

\* LocalSQLiteBackend.list_collections: the dictionary as the sequence of its
\* values in insertion order
list_collections(c) ==
    The({[i \in 1..Len(seq) |->
            [collectionID |-> seq[i].collectionID,
             name |-> seq[i].collectionName,
             parentCollectionID |-> seq[i].parentCollectionID,
             key |-> seq[i].key,
             path |-> get_path({seq[j] : j \in 1..Len(seq)}, seq[i])]] :
         seq \in {dict_values(ordered_rows(
                     {r \in c.collections : r.collectionID \notin c.deletedCollections}))}})

\* LocalSQLiteBackend.get_item_details: raises when no item has the key
get_item_details(c, item_key) ==
    IF {r \in c.items : r.key = item_key} = {}
    THEN Ret(c, "ValueError", None)
    ELSE Ret(c, "none", None)

Untitled == <<"U", "n", "t", "i", "t", "l", "e", "d">>

\* the dictionary built from one row of a listing query
listed_item(i, d) ==
    [itemID |-> i.itemID, key |-> i.key,
     title |-> IF d.value = <<>> THEN Untitled ELSE d.value]

\* LocalSQLiteBackend.list_unfiled_items: the rows of the query, as a set
\* (DISTINCT; the order by dateAdded is not modelled).  The rows of itemData
\* stand for the join of itemData, itemDataValues and fields; the WHERE clause
\* keeps the joined rows whose field is the title.
list_unfiled_items(c) ==
    {listed_item(i, d) :
        <<i, d>> \in {<<i, d>> \in c.items \X c.itemData :
                        /\ d.itemID = i.itemID
                        /\ ~\E ci \in c.collectionItems : ci.itemID = i.itemID
                        /\ i.itemID \notin c.itemAttachments
                        /\ i.itemID \notin c.itemNotes
                        /\ i.itemID \notin c.deletedItems
                        /\ d.fieldName = "title"}}

\* LocalSQLiteBackend.list_filed_items: the same query with an inner join on
\* collectionItems, grouped by the selected columns
list_filed_items(c) ==
    {listed_item(i, d) :
        <<i, d>> \in {<<i, d>> \in c.items \X c.itemData :
                        /\ d.itemID = i.itemID
                        /\ \E ci \in c.collectionItems : ci.itemID = i.itemID
                        /\ i.itemID \notin c.itemAttachments
                        /\ i.itemID \notin c.itemNotes
                        /\ i.itemID \notin c.deletedItems
                        /\ d.fieldName = "title"}}

-----------------------------------------------------------------------------
(* Sessions: connect, __exit__ *)

NoPath == <<>>

\* the instants of datetime.now() in one second of the model's clock
TicksPerSecond == 2

\* datetime.now().strftime("%Y%m%d_%H%M%S"): the instant cut to its second
strftime(now) == <<now \div TicksPerSecond>>

\* a probe that never finds the owner
probe_always_free(held) == FALSE

\* LocalSQLiteBackend.check_zotero_running: BEGIN EXCLUSIVE fails exactly when
\* the owning application holds the database
check_zotero_running(held) == held

\* a backup step that copies nothing
create_backup_skipped(files, now, c) == files

\* LocalSQLiteBackend.create_backup: shutil.copy2 of the database file to
\* backups/zotero_backup_<timestamp>.sqlite, over any file of that name
create_backup(files, now, c) ==
    [name \in DOMAIN files \cup {strftime(now)} |->
        IF name = strftime(now) THEN c ELSE files[name]]

\* a connect that copies the database before it probes for the owner
connect_backup_first(read_only, held, files, now, c) ==
    IF read_only
    THEN [raised |-> FALSE, mode |-> "ro", files |-> files, path |-> NoPath]
    ELSE IF check_zotero_running(held)
    THEN [raised |-> TRUE, mode |-> "none",
          files |-> create_backup(files, now, c), path |-> NoPath]
    ELSE [raised |-> FALSE, mode |-> "rw",
          files |-> create_backup(files, now, c), path |-> strftime(now)]

\* LocalSQLiteBackend.connect: what it leaves behind
\*   raised: the RuntimeError of a running owner;  mode: self.conn
connect(read_only, held, files, now, c) ==
    IF read_only
    THEN [raised |-> FALSE, mode |-> "ro", files |-> files, path |-> NoPath]
    ELSE IF check_zotero_running(held)
    THEN [raised |-> TRUE, mode |-> "none", files |-> files, path |-> NoPath]
    ELSE [raised |-> FALSE, mode |-> "rw",
          files |-> create_backup(files, now, c), path |-> strftime(now)]

\* an exit that commits whatever left the scope
exit_always_commit(mode, e, committed, working) == working

\* an exit that rolls back whatever left the scope
exit_never_commit(mode, e, committed, working) == committed

\* LocalSQLiteBackend.__exit__: the database file after the scope is left
exit_db(mode, e, committed, working) ==
    IF mode # "none"
    THEN IF e # "none" THEN committed ELSE working
    ELSE committed

-----------------------------------------------------------------------------
(* The catalogs a behaviour starts from *)

NameA == <<"A">>
NameB == <<"B">>
TitleT == <<"T">>
TagX == <<"x">>

EmptyCatalog ==
    [collections |-> {}, deletedCollections |-> {}, collectionItems |-> {},
     tags |-> {}, itemTags |-> {},
     items |-> {[itemID |-> 1, key |-> ItemA]},
     itemAttachments |-> {}, itemNotes |-> {}, deletedItems |-> {},
     itemData |-> {[itemID |-> 1, fieldName |-> "title", value |-> TitleT]}]

\* one root collection A holding the item
CatalogA ==
    [EmptyCatalog EXCEPT
        !.collections = {[collectionID |-> 1, collectionName |-> NameA,
                          parentCollectionID |-> 0, key |-> KeyPool[1]]},
        !.collectionItems = {[collectionID |-> 1, itemID |-> 1, orderIndex |-> 0]}]

InitCatalogs == {EmptyCatalog, CatalogA}

\* two root collections, A holding the item and B
CatalogAB ==
    [CatalogA EXCEPT
        !.collections = @ \cup {[collectionID |-> 2, collectionName |-> NameB,
                                 parentCollectionID |-> 0, key |-> KeyPool[2]]}]

\* the two root collections, B in the trash (a row of deletedCollections)
CatalogTrash == [CatalogAB EXCEPT !.deletedCollections = {2}]

BatchCatalogs == InitCatalogs \cup {CatalogAB, CatalogTrash}

NoCall == [op |-> "none", read_only |-> TRUE, item |-> None, key |-> None,
           name |-> None, tags |-> <<>>]

NoData == [t |-> "null"]

\* a backend that was constructed over the catalog c and never connected
InitFrom(c) ==
    /\ clock = 0
    /\ db = c
    /\ backups = <<>>
    /\ conn = "none"
    /\ backup_path = NoPath
    /\ tx = db
    /\ opened = db
    /\ gate = 0
    /\ prog = "none"
    /\ pc = "idle"
    /\ call = NoCall
    /\ data = NoData
    /\ idx = 1
    /\ existing_collections = <<>>
    /\ collection_keys = <<>>
    /\ exc = "none"
    /\ outcome = "none"
    /\ log = <<>>
    /\ started = 0

InitCommon == \E c \in InitCatalogs : InitFrom(c)

-----------------------------------------------------------------------------
(* The owning application and the clock *)

OwnerAcquire ==
    /\ ~owner
    /\ owner' = TRUE
    /\ UNCHANGED <<clock, db, backups, conn, backup_path, tx, opened, gate, prog,
                   pc, call, data, idx, existing_collections, collection_keys,
                   exc, outcome, log, started>>

OwnerRelease ==
    /\ owner
    /\ owner' = FALSE
    /\ UNCHANGED <<clock, db, backups, conn, backup_path, tx, opened, gate, prog,
                   pc, call, data, idx, existing_collections, collection_keys,
                   exc, outcome, log, started>>

\* time passes; only connect reads the clock, so it is advanced between programs
Tick ==
    /\ pc = "idle"
    /\ clock < MaxClock
    /\ clock' = clock + 1
    /\ UNCHANGED <<owner, db, backups, conn, backup_path, tx, opened, gate, prog,
                   pc, call, data, idx, existing_collections, collection_keys,
                   exc, outcome, log, started>>

-----------------------------------------------------------------------------
(* tools.py: one session per tool call *)

MutationOps == {"create_collection", "add_to_collection", "add_tags",
                "remove_from_collection"}

\* the calls of a behaviour.  tools.py opens the session of a mutation with
\* read_only=False and the session of a query with read_only=True; the store
\* itself lets a caller run a mutation on a read-only connection.
ToolCalls ==
    {[NoCall EXCEPT !.op = "create_collection", !.read_only = ro,
                    !.name = NameA, !.key = k] :
        ro \in BOOLEAN, k \in {None, <<>>, KeyPool[1], KeyZ}}
    \cup
    {[NoCall EXCEPT !.op = o, !.read_only = ro, !.item = i, !.key = k] :
        o \in {"add_to_collection", "remove_from_collection"},
        ro \in BOOLEAN, i \in {ItemA, ItemZ}, k \in {KeyPool[1], KeyZ}}
    \cup
    {[NoCall EXCEPT !.op = "add_tags", !.read_only = ro, !.item = i,
                    !.tags = <<TagX>>] :
        ro \in BOOLEAN, i \in {ItemA, ItemZ}}
    \cup
    {[NoCall EXCEPT !.op = "get_item_details", !.item = i] : i \in {ItemA, ItemZ}}

\* the operation a tool runs inside its session
run_call(c, mode, k) ==
    CASE k.op = "create_collection" -> create_collection(c, mode, k.name, k.key)
      [] k.op = "add_to_collection" -> add_to_collection(c, mode, k.item, k.key)
      [] k.op = "remove_from_collection" -> remove_from_collection(c, mode, k.item, k.key)
      [] k.op = "add_tags" -> add_tags(c, mode, k.item, k.tags)
      [] OTHER -> get_item_details(c, k.item)

\* get_zotero_backend(read_only): a new backend, connected
ToolStart(k) ==
    /\ pc = "idle"
    /\ started < MaxCalls
    /\ LET r == connect(k.read_only, owner, backups, clock, db)
       IN  /\ conn' = r.mode
           /\ backups' = r.files
           /\ backup_path' = r.path
           /\ gate' = IF r.mode = "rw" THEN gate + 1 ELSE gate
           /\ pc' = IF r.raised THEN "idle" ELSE "body"
           /\ outcome' = IF r.raised THEN "busy" ELSE "running"
    /\ prog' = "tool"
    /\ call' = k
    /\ started' = started + 1
    /\ tx' = db
    /\ opened' = db
    /\ exc' = "none"
    /\ UNCHANGED <<owner, clock, db, data, idx, existing_collections,
                   collection_keys, log>>

\* the body of the with block: one store operation, then the tool's print,
\* which may itself fail
ToolBody ==
    /\ pc = "body"
    /\ prog = "tool"
    /\ LET r == run_call(tx, conn, call)
       IN  /\ tx' = r.cat
           /\ \E printed \in BOOLEAN :
                exc' = IF r.exc # "none" THEN r.exc
                       ELSE IF printed THEN "none" ELSE "OSError"
    /\ pc' = "exit"
    /\ UNCHANGED <<owner, clock, db, backups, conn, backup_path, opened, gate,
                   prog, call, data, idx, existing_collections, collection_keys,
                   outcome, log, started>>

\* LocalSQLiteBackend.__exit__, after which the backend is dropped
Exit ==
    /\ pc = "exit"
    /\ db' = exit_db(conn, exc, db, tx)
    /\ conn' = "none"
    /\ pc' = "idle"
    /\ outcome' = IF exc = "none" THEN "done" ELSE "aborted"
    /\ UNCHANGED <<owner, clock, backups, backup_path, tx, opened, gate, prog,
                   call, data, idx, existing_collections, collection_keys, exc,
                   log, started>>

Init ==
    /\ InitCommon
    /\ owner \in BOOLEAN

Next ==
    \/ OwnerAcquire
    \/ OwnerRelease
    \/ Tick
    \/ \E k \in ToolCalls : ToolStart(k)
    \/ ToolBody
    \/ Exit

Spec == Init /\ [][Next]_vars

-----------------------------------------------------------------------------
(* tools.py: the listing tools, over libraries whose items differ in kind *)

\* the library c with the rows of one more item: att, note, del say whether
\* it has a row in itemAttachments, itemNotes, deletedItems; fields are the
\* names of the fields it has a value for; linked says whether it is in the
\* collection A
with_item(c, id, key, att, note, del, fields, linked) ==
    [c EXCEPT
        !.items = {i \in @ : i.itemID # id} \cup {[itemID |-> id, key |-> key]},
        !.itemAttachments = (@ \ {id}) \cup (IF att THEN {id} ELSE {}),
        !.itemNotes = (@ \ {id}) \cup (IF note THEN {id} ELSE {}),
        !.deletedItems = (@ \ {id}) \cup (IF del THEN {id} ELSE {}),
        !.itemData = {d \in @ : d.itemID # id} \cup
                     {[itemID |-> id, fieldName |-> f, value |-> TitleT] : f \in fields},
        !.collectionItems = {l \in @ : l.itemID # id} \cup
                            (IF linked
                             THEN {[collectionID |-> 1, itemID |-> id, orderIndex |-> id - 1]}
                             ELSE {})]

\* the fields an item has values for
FieldSets == {{}, {"title"}, {"abstractNote"}, {"title", "abstractNote"}}

\* the libraries the listings are read from: the collection A and two items;
\* the first item is of every kind, the second is a regular item
ReadCatalogs ==
    {with_item(with_item(CatalogA, 1, ItemA, att, note, del, f1, l1),
               2, ItemB, FALSE, FALSE, FALSE, f2, l2) :
        att \in BOOLEAN, note \in BOOLEAN, del \in BOOLEAN, f1 \in FieldSets,
        l1 \in BOOLEAN, f2 \in {{}, {"title"}}, l2 \in BOOLEAN}

ReadCalls ==
    {[NoCall EXCEPT !.op = o] : o \in {"list_unfiled_items", "list_filed_items"}}

\* the listing a tool returns
Listed(o, rows) == [op |-> o, ret |-> rows]

\* the body of the with block of list_unfiled_items and of list_filed_items:
\* one query; the tool returns its rows
ReadBody ==
    /\ pc = "body"
    /\ prog = "tool"
    /\ call \in ReadCalls
    /\ log' = Append(log, Listed(call.op,
                                  IF call.op = "list_unfiled_items"
                                  THEN list_unfiled_items(tx)
                                  ELSE list_filed_items(tx)))
    /\ exc' = "none"
    /\ pc' = "exit"
    /\ UNCHANGED <<owner, clock, db, backups, conn, backup_path, tx, opened, gate,
                   prog, call, data, idx, existing_collections, collection_keys,
                   outcome, started>>

InitRead ==
    /\ \E c \in ReadCatalogs : InitFrom(c)
    /\ owner \in BOOLEAN

NextRead ==
    \/ \E k \in ReadCalls : ToolStart(k)
    \/ ReadBody
    \/ Exit

SpecRead == InitRead /\ [][NextRead]_vars

-----------------------------------------------------------------------------
(* JSON values and the validators of the batch descriptors *)

Str(s) == [t |-> "str", s |-> s]
Num(n) == [t |-> "num", n |-> n]
List(l) == [t |-> "list", l |-> l]
Obj(f) == [t |-> "obj", f |-> f]

\* the depth validate_* allows a path (count('/') > 2 is refused)
MaxDepth == 3
\* the number of tags validate_* allows an item
MaxTags == 5

\* one message of the list a validator returns: the entry it is about (<<i>>
\* for "Item i" or "Move i", Root for the descriptor itself), its text with
\* the field it names, and the value it quotes
Root == <<>>
Message(entry, text, got) == [entry |-> entry, text |-> text, got |-> got]

\* the item_key check of both validators
item_key_errors(prefix, e) ==
    IF "item_key" \notin DOMAIN e.f
    THEN <<Message(prefix, <<"missing 'item_key'">>, NoData)>>
    ELSE IF e.f.item_key.t # "str"
    THEN <<Message(prefix, <<"'item_key' must be a string">>, NoData)>>
    ELSE IF ~matches_item_key(e.f.item_key.s)
    THEN <<Message(prefix, <<"'item_key' must be 8 uppercase alphanumeric characters">>,
                   e.f.item_key)>>
    ELSE <<>>

\* a check that holds every path field to the depth limit
path_errors_depth_always(prefix, e, field, depth_checked) ==
    IF field \notin DOMAIN e.f
    THEN <<Message(prefix, <<"missing", field>>, NoData)>>
    ELSE IF e.f[field].t # "str"
    THEN <<Message(prefix, <<"must be a string", field>>, NoData)>>
    ELSE IF strip(e.f[field].s) = <<>>
    THEN <<Message(prefix, <<"cannot be empty", field>>, NoData)>>
    ELSE IF count_slash(e.f[field].s) > MaxDepth - 1
    THEN <<Message(prefix, <<"exceeds max 3 levels", field>>, e.f[field])>>
    ELSE <<>>

\* the check of a path field; current_path has no depth check
path_errors(prefix, e, field, depth_checked) ==
    IF field \notin DOMAIN e.f
    THEN <<Message(prefix, <<"missing", field>>, NoData)>>
    ELSE IF e.f[field].t # "str"
    THEN <<Message(prefix, <<"must be a string", field>>, NoData)>>
    ELSE IF strip(e.f[field].s) = <<>>
    THEN <<Message(prefix, <<"cannot be empty", field>>, NoData)>>
    ELSE IF depth_checked /\ count_slash(e.f[field].s) > MaxDepth - 1
    THEN <<Message(prefix, <<"exceeds max 3 levels", field>>, e.f[field])>>
    ELSE <<>>

\* the tags check of validate_suggestions
tags_errors(prefix, e) ==
    IF "tags" \notin DOMAIN e.f THEN <<>>
    ELSE IF e.f.tags.t # "list"
    THEN <<Message(prefix, <<"'tags' must be a list">>, NoData)>>
    ELSE IF \E i \in 1..Len(e.f.tags.l) : e.f.tags.l[i].t # "str"
    THEN <<Message(prefix, <<"all tags must be strings">>, NoData)>>
    ELSE IF Len(e.f.tags.l) > MaxTags
    THEN <<Message(prefix, <<"too many tags">>, Num(Len(e.f.tags.l)))>>
    ELSE <<>>

\* the checks of title and reasoning
text_errors(prefix, e) ==
    (IF "title" \in DOMAIN e.f /\ e.f.title.t # "str"
     THEN <<Message(prefix, <<"'title' must be a string">>, NoData)>> ELSE <<>>)
    \o
    (IF "reasoning" \in DOMAIN e.f /\ e.f.reasoning.t # "str"
     THEN <<Message(prefix, <<"'reasoning' must be a string">>, NoData)>> ELSE <<>>)

\* the body of the loop of validate_suggestions for entry i (counted from 0)
suggestion_errors(i, e) ==
    IF e.t # "obj" THEN <<Message(<<i>>, <<"must be an object">>, NoData)>>
    ELSE item_key_errors(<<i>>, e) \o path_errors(<<i>>, e, "collection_path", TRUE)
         \o tags_errors(<<i>>, e) \o text_errors(<<i>>, e)

\* the body of the loop of validate_reorganization for entry i
move_errors(i, e) ==
    IF e.t # "obj" THEN <<Message(<<i>>, <<"must be an object">>, NoData)>>
    ELSE item_key_errors(<<i>>, e) \o path_errors(<<i>>, e, "current_path", FALSE)
         \o path_errors(<<i>>, e, "new_path", TRUE) \o text_errors(<<i>>, e)

RECURSIVE entries_errors(_, _, _)
entries_errors(l, i, reorganization) ==
    IF i > Len(l) THEN <<>>
    ELSE (IF reorganization THEN move_errors(i - 1, l[i])
          ELSE suggestion_errors(i - 1, l[i]))
         \o entries_errors(l, i + 1, reorganization)

\* a validator that takes every value but a non-empty list for "nothing to do"
validate_batch_falsy(d, field, reorganization) ==
    IF d.t # "obj" THEN <<Message(Root, <<"Root must be a JSON object">>, NoData)>>
    ELSE IF field \notin DOMAIN d.f
    THEN <<Message(Root, <<"Missing required field", field>>, NoData)>>
    ELSE IF d.f[field].t # "list" \/ Len(d.f[field].l) = 0 THEN <<>>
    ELSE entries_errors(d.f[field].l, 1, reorganization)

\* the checks of the top-level structure, then of every entry
validate_batch(d, field, reorganization) ==
    IF d.t # "obj" THEN <<Message(Root, <<"Root must be a JSON object">>, NoData)>>
    ELSE IF field \notin DOMAIN d.f
    THEN <<Message(Root, <<"Missing required field", field>>, NoData)>>
    ELSE IF d.f[field].t # "list"
    THEN <<Message(Root, <<"must be a list", field>>, NoData)>>
    ELSE IF Len(d.f[field].l) = 0 THEN <<>>
    ELSE entries_errors(d.f[field].l, 1, reorganization)

\* apply_suggestions.validate_suggestions
validate_suggestions(d) == validate_batch(d, "items", FALSE)

\* apply_reorganization.validate_reorganization
validate_reorganization(d) == validate_batch(d, "moves", TRUE)

-----------------------------------------------------------------------------
(* Path resolution: the three loops that create a collection hierarchy *)

\* {coll['path']: key for key, coll in existing_collections.items()}: of the
\* rows of one path the last one stays
path_dict(rows) ==
    [p \in {rows[i].path : i \in 1..Len(rows)} |->
        rows[Max({i \in 1..Len(rows) : rows[i].path = p})].key]

\* d[k] = v
dict_set(d, k, v) == [x \in DOMAIN d \cup {k} |-> IF x = k THEN v ELSE d[x]]

\* d.update(e)
dict_update(d, e) == [x \in DOMAIN d \cup DOMAIN e |-> IF x \in DOMAIN e THEN e[x] ELSE d[x]]

\* for key, coll in existing_collections.items(): if coll["path"] == p: ... break
first_with_path(rows, p) ==
    LET hits == {i \in 1..Len(rows) : rows[i].path = p}
    IN  IF hits = {} THEN None
        ELSE rows[CHOOSE i \in hits : \A j \in hits : i <= j].key

\* one createNode call, as the log keeps it
Created(name, parent, key, path) ==
    [name |-> name, parent |-> parent, key |-> key, path |-> path]

\* the local variables of a resolution loop: the tables, the dictionary the
\* loop writes (collection_keys, new_collection_keys), the caller's cache,
\* parent_key, the exception raised and the collections created so far;
\* leaf is the key the resolution ends with
Resolving(c, keys, cache, parent_key) ==
    [cat |-> c, keys |-> keys, cache |-> cache, parent_key |-> parent_key,
     exc |-> "none", created |-> <<>>, leaf |-> None]

\* a createNode call that passes no parent, whatever the level
create_level_under_root(acc, mode, part, path_so_far, cached) ==
    The({IF r.exc # "none" THEN [acc EXCEPT !.cat = r.cat, !.exc = r.exc]
         ELSE [acc EXCEPT
                 !.cat = r.cat,
                 !.keys = dict_set(acc.keys, path_so_far, r.ret),
                 !.cache = IF cached THEN dict_set(acc.cache, path_so_far, r.ret)
                           ELSE acc.cache,
                 !.parent_key = r.ret,
                 !.created = Append(acc.created, Created(part, None, r.ret, path_so_far))] :
         r \in {create_collection(acc.cat, mode, part, None)}})

\* backend.create_collection(part, parent_key) inside a loop, the new key
\* stored under path_so_far in the loop's dictionary (and in the cache, for
\* build_collection_hierarchy)
create_level(acc, mode, part, path_so_far, cached) ==
    The({IF r.exc # "none" THEN [acc EXCEPT !.cat = r.cat, !.exc = r.exc]
         ELSE [acc EXCEPT
                 !.cat = r.cat,
                 !.keys = dict_set(acc.keys, path_so_far, r.ret),
                 !.cache = IF cached THEN dict_set(acc.cache, path_so_far, r.ret)
                           ELSE acc.cache,
                 !.parent_key = r.ret,
                 !.created = Append(acc.created,
                                 Created(part, acc.parent_key, r.ret, path_so_far))] :
         r \in {create_collection(acc.cat, mode, part, acc.parent_key)}})

\* a turn that looks up only the last part of the path and creates every
\* part before it
suggestion_level_leaf_only(parts, i, acc, mode) ==
    IF i < Len(parts) \/ join(SubSeq(parts, 1, i)) \notin DOMAIN acc.keys
    THEN create_level(acc, mode, parts[i], join(SubSeq(parts, 1, i)), FALSE)
    ELSE [acc EXCEPT !.parent_key = acc.keys[join(SubSeq(parts, 1, i))]]

\* apply_suggestions: one turn of the loop over the parts of collection_path
suggestion_level(parts, i, acc, mode) ==
    LET path_so_far == join(SubSeq(parts, 1, i))
    IN  IF path_so_far \notin DOMAIN acc.keys
        THEN create_level(acc, mode, parts[i], path_so_far, FALSE)
        ELSE [acc EXCEPT !.parent_key = acc.keys[path_so_far]]

\* a turn that looks path_so_far up in the caller's cache only, not in the
\* snapshot
hierarchy_level_cache_only(parts, i, acc, mode) ==
    IF join(SubSeq(parts, 1, i)) \notin DOMAIN acc.cache
    THEN create_level(acc, mode, parts[i], join(SubSeq(parts, 1, i)), TRUE)
    ELSE [acc EXCEPT !.parent_key = acc.cache[join(SubSeq(parts, 1, i))]]

\* utils.build_collection_hierarchy: one turn of the loop over the parts
hierarchy_level(parts, i, acc, mode) ==
    LET path_so_far == join(SubSeq(parts, 1, i))
    IN  IF path_so_far \notin DOMAIN acc.keys
        THEN create_level(acc, mode, parts[i], path_so_far, TRUE)
        ELSE [acc EXCEPT !.parent_key = acc.keys[path_so_far]]

\* a turn that never looks a path up in new_collection_keys
move_level_uncached(parts, i, acc, rows, mode) ==
    IF first_with_path(rows, join(SubSeq(parts, 1, i))) # None
    THEN [acc EXCEPT !.parent_key = first_with_path(rows, join(SubSeq(parts, 1, i)))]
    ELSE create_level(acc, mode, parts[i], join(SubSeq(parts, 1, i)), FALSE)

\* apply_reorganization: one turn of the loop over the parts of new_path
move_level(parts, i, acc, rows, mode) ==
    LET path_so_far == join(SubSeq(parts, 1, i))
        existing_key == first_with_path(rows, path_so_far)
    IN  IF existing_key # None THEN [acc EXCEPT !.parent_key = existing_key]
        ELSE IF path_so_far \in DOMAIN acc.keys
        THEN [acc EXCEPT !.parent_key = acc.keys[path_so_far]]
        ELSE create_level(acc, mode, parts[i], path_so_far, FALSE)

\* for i, part in enumerate(parts): the turns in order, left when one raises
RECURSIVE levels(_, _, _, _, _, _)
levels(which, parts, i, acc, rows, mode) ==
    IF i > Len(parts) \/ acc.exc # "none" THEN acc
    ELSE The({levels(which, parts, i + 1, next, rows, mode) :
              next \in {CASE which = "suggestion" -> suggestion_level(parts, i, acc, mode)
                          [] which = "hierarchy" -> hierarchy_level(parts, i, acc, mode)
                          [] OTHER -> move_level(parts, i, acc, rows, mode)}})

\* apply_suggestions: the hierarchy of collection_path, then
\* final_key = collection_keys[collection_path]
resolve_suggestion(collection_path, keys, c, mode) ==
    The({IF r.exc # "none" THEN r
         ELSE [r EXCEPT !.leaf = r.keys[collection_path]] :
         r \in {levels("suggestion", split(collection_path), 1,
                       Resolving(c, keys, <<>>, None), <<>>, mode)}})

\* utils.build_collection_hierarchy(collection_path, existing_collections,
\* backend, new_collection_cache): returns collection_keys[collection_path]
build_collection_hierarchy(collection_path, rows, cache, c, mode) ==
    The({IF r.exc # "none" THEN r
         ELSE [r EXCEPT !.leaf = r.keys[collection_path]] :
         r \in {levels("hierarchy", split(collection_path), 1,
                       Resolving(c, dict_update(path_dict(rows), cache), cache, None),
                       rows, mode)}})

\* apply_reorganization: the hierarchy of new_path, then final_key: the first
\* snapshot row of that path, else new_collection_keys.get(new_path)
resolve_move(new_path, rows, new_keys, c, mode) ==
    The({IF r.exc # "none" THEN r
         ELSE [r EXCEPT !.leaf =
                 IF first_with_path(rows, new_path) # None
                 THEN first_with_path(rows, new_path)
                 ELSE IF new_path \in DOMAIN r.keys THEN r.keys[new_path]
                 ELSE None] :
         r \in {levels("move", split(new_path), 1,
                       Resolving(c, new_keys, <<>>, None), rows, mode)}})

-----------------------------------------------------------------------------
(* apply_suggestions.py, apply_reorganization.py and a session that resolves
   paths with utils.build_collection_hierarchy *)

\* what the lines before the with block leave behind
Begun(o, r) == [outcome |-> o, mode |-> r.mode, files |-> r.files, path |-> r.path]

NoSession(files) == [raised |-> FALSE, mode |-> "none", files |-> files, path |-> NoPath]

\* an applier that connects before it validates
begin_suggestions_connect_first(d, held, files, now, c) ==
    LET r == connect(FALSE, held, files, now, c)
    IN  IF r.raised THEN Begun("busy", r)
        ELSE IF validate_suggestions(d) # <<>>
        THEN Begun("invalid", [r EXCEPT !.mode = "none", !.path = NoPath])
        ELSE Begun("running", r)

\* apply_suggestions up to backend.connect(read_only=False)
begin_suggestions(d, held, files, now, c) ==
    LET r == connect(FALSE, held, files, now, c)
    IN  IF validate_suggestions(d) # <<>> THEN Begun("invalid", NoSession(files))
        ELSE IF r.raised THEN Begun("busy", r)
        ELSE Begun("running", r)

\* apply_reorganization up to backend.connect(read_only=False)
begin_reorganization(d, held, files, now, c) ==
    LET r == connect(FALSE, held, files, now, c)
    IN  IF validate_reorganization(d) # <<>> THEN Begun("invalid", NoSession(files))
        ELSE IF Len(d.f.moves.l) = 0 THEN Begun("done", NoSession(files))
        ELSE IF r.raised THEN Begun("busy", r)
        ELSE Begun("running", r)

\* what the log keeps of one entry
Logged(status, item, path, leaf, created) ==
    [status |-> status, item |-> item, path |-> path, leaf |-> leaf, created |-> created]

\* item.get('tags', [])
tags_of(e) == IF "tags" \in DOMAIN e.f
              THEN [i \in 1..Len(e.f.tags.l) |-> e.f.tags.l[i].s]
              ELSE <<>>

\* apply_suggestions, after the hierarchy r: add_to_collection, then add_tags
suggestion_writes(r, item_key, tags, mode) ==
    The({IF a.exc # "none" \/ Len(tags) = 0
         THEN [r EXCEPT !.cat = a.cat, !.exc = a.exc]
         ELSE The({[r EXCEPT !.cat = t.cat, !.exc = t.exc] :
                   t \in {add_tags(a.cat, mode, item_key, tags)}}) :
         a \in {add_to_collection(r.cat, mode, item_key, r.leaf)}})

\* apply_suggestions: the body of the loop for one item
suggestion_entry(e, keys, c, mode) ==
    The({IF r.exc # "none" THEN r
         ELSE suggestion_writes(r, e.f.item_key.s, tags_of(e), mode) :
         r \in {resolve_suggestion(e.f.collection_path.s, keys, c, mode)}})

\* apply_reorganization, after the hierarchy r: add_to_collection to the new
\* collection, then remove_from_collection from the old one
move_writes(r, item_key, current_collection_key, mode) ==
    The({IF a.exc # "none" THEN [r EXCEPT !.cat = a.cat, !.exc = a.exc]
         ELSE The({[r EXCEPT !.cat = d.cat, !.exc = d.exc] :
                   d \in {remove_from_collection(a.cat, mode, item_key,
                                                 current_collection_key)}}) :
         a \in {add_to_collection(r.cat, mode, item_key, r.leaf)}})

\* a body that builds the hierarchy of new_path before it looks current_path
\* up in the snapshot
move_entry_resolves_first(e, rows, new_keys, c, mode) ==
    The({IF r.exc # "none" THEN r
         ELSE IF first_with_path(rows, e.f.current_path.s) = None \/ r.leaf = None
         THEN [r EXCEPT !.exc = "skipped"]
         ELSE move_writes(r, e.f.item_key.s,
                          first_with_path(rows, e.f.current_path.s), mode) :
         r \in {resolve_move(e.f.new_path.s, rows, new_keys, c, mode)}})

\* apply_reorganization: the body of the loop for one move; exc "skipped"
\* tells that a continue left the turn
move_entry(e, rows, new_keys, c, mode) ==
    LET current_collection_key == first_with_path(rows, e.f.current_path.s)
    IN  IF current_collection_key = None
        THEN [Resolving(c, new_keys, <<>>, None) EXCEPT !.exc = "skipped"]
        ELSE The({IF r.exc # "none" THEN r
                  ELSE IF r.leaf = None THEN [r EXCEPT !.exc = "skipped"]
                  ELSE move_writes(r, e.f.item_key.s, current_collection_key, mode) :
                  r \in {resolve_move(e.f.new_path.s, rows, new_keys, c, mode)}})

PathA == <<"A">>
PathAB == <<"A", "/", "B">>
PathABA == <<"A", "/", "B", "/", "A">>
PathABB == <<"A", "/", "B", "/", "B">>
\* a path whose first part is the empty string
PathSlashA == <<"/", "A">>
PathDeep == <<"A", "/", "B", "/", "A", "/", "B">>

\* the sequences over S of length at most n
SeqsUpTo(S, n) == UNION {[1..k -> S] : k \in 0..n}

Suggestion(k, p) == Obj([item_key |-> Str(k), collection_path |-> Str(p)])

\* entries of a suggestions file: the item of the library under paths of one
\* to three segments, without tags and with a tag named twice, an item the library does not
\* hold, a path that begins with "/", and two entries the validator refuses
SuggestionEntries ==
    {Suggestion(ItemA, p) : p \in {PathA, PathAB, PathABA, PathABB}}
    \cup {Suggestion(ItemZ, p) : p \in {PathA, PathAB}}
    \cup {Obj([item_key |-> Str(ItemA), collection_path |-> Str(PathABA),
               tags |-> List(<<Str(TagX), Str(TagX)>>)])}
    \cup {Suggestion(ItemA, PathSlashA)}
    \cup {Suggestion(ItemLower, PathA), Suggestion(ItemA, PathDeep)}

Move(k, c, p) == Obj([item_key |-> Str(k), current_path |-> Str(c), new_path |-> Str(p)])

\* entries of a reorganization file: moves of the item of the library from a
\* path that may be in the snapshot (A) and one that is not (A/B), moves of an
\* item the library does not hold, and two entries the validator refuses
MoveEntries ==
    {Move(ItemA, c, p) : c \in {PathA, PathAB}, p \in {PathA, PathAB, PathABA}}
    \cup {Move(ItemA, PathA, PathABB)}
    \cup {Move(ItemZ, PathA, p) : p \in {PathA, PathAB}}
    \cup {Move(ItemLower, PathA, PathA), Move(ItemA, PathA, PathDeep)}

\* descriptors whose top level is malformed
Malformed == {Num(0), Obj([other |-> List(<<>>)]), Obj([items |-> Num(0), moves |-> Num(0)])}

SuggestionBatches ==
    {Obj([items |-> List(l)]) : l \in SeqsUpTo(SuggestionEntries, MaxBatch)} \cup Malformed

MoveBatches ==
    {Obj([moves |-> List(l)]) : l \in SeqsUpTo(MoveEntries, MaxBatch)} \cup Malformed

PathLists ==
    {List(l) : l \in SeqsUpTo({Str(PathA), Str(PathAB), Str(PathABA), Str(PathABB),
                               Str(PathSlashA)}, MaxBatch)}

\* the caches a caller of utils.build_collection_hierarchy hands in: none, or
\* one that names a collection of the catalog c under the path A
Caches(c) == {<<>>} \cup {[p \in {PathA} |-> r.key] : r \in c.collections}

\* the with block is entered: the snapshot is read and the loop starts
Enter(b, program, d, entries, keys0) ==
    /\ conn' = b.mode
    /\ backups' = b.files
    /\ backup_path' = b.path
    /\ gate' = IF b.mode = "rw" THEN gate + 1 ELSE gate
    /\ outcome' = b.outcome
    /\ prog' = program
    /\ data' = d
    /\ idx' = 1
    /\ log' = <<>>
    /\ tx' = db
    /\ opened' = db
    /\ exc' = "none"
    /\ started' = started + 1
    /\ existing_collections' = IF b.outcome = "running" THEN list_collections(db) ELSE <<>>
    /\ collection_keys' = IF b.outcome = "running" THEN keys0 ELSE <<>>
    /\ pc' = IF b.outcome # "running" THEN "idle"
             ELSE IF Len(entries) = 0 THEN "exit" ELSE "entries"
    /\ UNCHANGED <<owner, clock, db, call>>

\* apply_suggestions(suggestions_file) up to the loop
ApplySuggestions(d) ==
    /\ pc = "idle"
    /\ started = 0
    /\ LET b == begin_suggestions(d, owner, backups, clock, db)
       IN  Enter(b, "suggestions", d,
                 IF b.outcome = "running" THEN d.f.items.l ELSE <<>>,
                 path_dict(list_collections(db)))

\* apply_reorganization(reorganization_file) up to the loop
ApplyReorganization(d) ==
    /\ pc = "idle"
    /\ started = 0
    /\ LET b == begin_reorganization(d, owner, backups, clock, db)
       IN  Enter(b, "reorganization", d,
                 IF b.outcome = "running" THEN d.f.moves.l ELSE <<>>, <<>>)

\* a write session that will resolve the paths of d with
\* utils.build_collection_hierarchy, one snapshot and one cache
ResolvePaths(d, new_collection_cache) ==
    /\ pc = "idle"
    /\ started = 0
    /\ LET r == connect(FALSE, owner, backups, clock, db)
       IN  Enter(Begun(IF r.raised THEN "busy" ELSE "running", r), "paths", d, d.l,
                 new_collection_cache)

\* the loop went through one entry; a continue is no exception
Step(r, item, path, last) ==
    /\ tx' = r.cat
    /\ collection_keys' = r.keys
    /\ exc' = IF r.exc = "skipped" THEN "none" ELSE r.exc
    /\ log' = Append(log, Logged(IF r.exc = "none" THEN "applied"
                                 ELSE IF r.exc = "skipped" THEN "skipped"
                                 ELSE "raised",
                                 item, path, r.leaf, r.created))
    /\ idx' = idx + 1
    /\ pc' = IF r.exc \notin {"none", "skipped"} \/ last THEN "exit" ELSE "entries"
    /\ UNCHANGED <<owner, clock, db, backups, conn, backup_path, opened, gate,
                   prog, call, data, existing_collections, outcome, started>>

\* apply_suggestions: one turn of the loop over suggestions['items']
SuggestionEntry ==
    /\ pc = "entries"
    /\ prog = "suggestions"
    /\ \E e \in {data.f.items.l[idx]} :
       \E r \in {suggestion_entry(e, collection_keys, tx, conn)} :
          Step(r, e.f.item_key.s, e.f.collection_path.s, idx = Len(data.f.items.l))

\* apply_reorganization: one turn of the loop over moves
MoveEntry ==
    /\ pc = "entries"
    /\ prog = "reorganization"
    /\ \E e \in {data.f.moves.l[idx]} :
       \E r \in {move_entry(e, existing_collections, collection_keys, tx, conn)} :
          Step(r, e.f.item_key.s, e.f.new_path.s, idx = Len(data.f.moves.l))

\* one call of utils.build_collection_hierarchy; the cache it was given is
\* the dictionary the session keeps
HierarchyEntry ==
    /\ pc = "entries"
    /\ prog = "paths"
    /\ \E r \in {build_collection_hierarchy(data.l[idx].s, existing_collections,
                                            collection_keys, tx, conn)} :
          Step([r EXCEPT !.keys = r.cache], None, data.l[idx].s, idx = Len(data.l))

InitBatch ==
    /\ \E c \in BatchCatalogs : InitFrom(c)
    /\ owner \in BOOLEAN

NextBatch ==
    \/ \E d \in SuggestionBatches : ApplySuggestions(d)
    \/ \E d \in MoveBatches : ApplyReorganization(d)
    \/ \E d \in PathLists, cache \in Caches(db) : ResolvePaths(d, cache)
    \/ SuggestionEntry
    \/ MoveEntry
    \/ HierarchyEntry
    \/ Exit

SpecBatch == InitBatch /\ [][NextBatch]_vars

\* the two appliers, over the library without collections and the library
\* with one.  A program that has begun runs on: the loop takes its next turn
\* and the with block is left (the appliers are sequential code without a
\* blocking call)
NextApply ==
    \/ \E d \in SuggestionBatches : ApplySuggestions(d)
    \/ \E d \in MoveBatches : ApplyReorganization(d)
    \/ SuggestionEntry
    \/ MoveEntry
    \/ Exit

SpecBatchLive ==
    Init /\ [][NextApply]_vars /\ WF_vars(SuggestionEntry \/ MoveEntry \/ Exit)

-----------------------------------------------------------------------------
(* The validators, applied to descriptors and values of every shape *)

\* the None a utils validator returns for "no error": a message without text
NoError == Message(Root, <<>>, NoData)

\* utils.validate_item_key: the message, or None
validate_item_key(item_key, item_label) ==
    IF item_key.t # "str"
    THEN Message(item_label, <<"'item_key' must be a string">>, NoData)
    ELSE IF ~matches_item_key(item_key.s)
    THEN Message(item_label, <<"'item_key' must be 8 uppercase alphanumeric characters">>,
                 item_key)
    ELSE NoError

\* utils.validate_collection_path: the message, or None
validate_collection_path(path, field_name, item_label) ==
    IF path.t # "str"
    THEN Message(item_label, <<"must be a string", field_name>>, NoData)
    ELSE IF strip(path.s) = <<>>
    THEN Message(item_label, <<"cannot be empty", field_name>>, NoData)
    ELSE IF count_slash(path.s) > MaxDepth - 1
    THEN Message(item_label, <<"exceeds max 3 levels", field_name>>, path)
    ELSE NoError

\* a tags check that counts the tags before it looks at their types
validate_tags_count_first(tags, item_label) ==
    IF tags.t # "list"
    THEN Message(item_label, <<"'tags' must be a list">>, NoData)
    ELSE IF Len(tags.l) > MaxTags
    THEN Message(item_label, <<"too many tags">>, Num(Len(tags.l)))
    ELSE IF \E i \in 1..Len(tags.l) : tags.l[i].t # "str"
    THEN Message(item_label, <<"all tags must be strings">>, NoData)
    ELSE NoError

\* utils.validate_tags: the message, or None
validate_tags(tags, item_label) ==
    IF tags.t # "list"
    THEN Message(item_label, <<"'tags' must be a list">>, NoData)
    ELSE IF \E i \in 1..Len(tags.l) : tags.l[i].t # "str"
    THEN Message(item_label, <<"all tags must be strings">>, NoData)
    ELSE IF Len(tags.l) > MaxTags
    THEN Message(item_label, <<"too many tags">>, Num(Len(tags.l)))
    ELSE NoError

\* error = validate_...(...); if error: errors.append(error)
appended(error) == IF error # NoError THEN <<error>> ELSE <<>>

\* utils.validate_suggestions: the body of the loop for entry i
utils_suggestion_errors(i, e) ==
    IF e.t # "obj" THEN <<Message(<<i>>, <<"must be an object">>, NoData)>>
    ELSE (IF "item_key" \notin DOMAIN e.f
          THEN <<Message(<<i>>, <<"missing 'item_key'">>, NoData)>>
          ELSE appended(validate_item_key(e.f.item_key, <<i>>)))
         \o
         (IF "collection_path" \notin DOMAIN e.f
          THEN <<Message(<<i>>, <<"missing", "collection_path">>, NoData)>>
          ELSE appended(validate_collection_path(e.f.collection_path,
                                                 "collection_path", <<i>>)))
         \o
         (IF "tags" \in DOMAIN e.f THEN appended(validate_tags(e.f.tags, <<i>>))
          ELSE <<>>)
         \o
         (IF "title" \in DOMAIN e.f /\ e.f.title.t # "str"
          THEN <<Message(<<i>>, <<"'title' must be a string">>, NoData)>> ELSE <<>>)
         \o
         (IF "reasoning" \in DOMAIN e.f /\ e.f.reasoning.t # "str"
          THEN <<Message(<<i>>, <<"'reasoning' must be a string">>, NoData)>> ELSE <<>>)

\* utils.validate_reorganization: the body of the loop for entry i; the
\* current_path check is written out, without a depth check
utils_move_errors(i, e) ==
    IF e.t # "obj" THEN <<Message(<<i>>, <<"must be an object">>, NoData)>>
    ELSE (IF "item_key" \notin DOMAIN e.f
          THEN <<Message(<<i>>, <<"missing 'item_key'">>, NoData)>>
          ELSE appended(validate_item_key(e.f.item_key, <<i>>)))
         \o
         (IF "current_path" \notin DOMAIN e.f
          THEN <<Message(<<i>>, <<"missing", "current_path">>, NoData)>>
          ELSE IF e.f.current_path.t # "str"
          THEN <<Message(<<i>>, <<"must be a string", "current_path">>, NoData)>>
          ELSE IF strip(e.f.current_path.s) = <<>>
          THEN <<Message(<<i>>, <<"cannot be empty", "current_path">>, NoData)>>
          ELSE <<>>)
         \o
         (IF "new_path" \notin DOMAIN e.f
          THEN <<Message(<<i>>, <<"missing", "new_path">>, NoData)>>
          ELSE appended(validate_collection_path(e.f.new_path, "new_path", <<i>>)))
         \o
         (IF "title" \in DOMAIN e.f /\ e.f.title.t # "str"
          THEN <<Message(<<i>>, <<"'title' must be a string">>, NoData)>> ELSE <<>>)
         \o
         (IF "reasoning" \in DOMAIN e.f /\ e.f.reasoning.t # "str"
          THEN <<Message(<<i>>, <<"'reasoning' must be a string">>, NoData)>> ELSE <<>>)

\* for i, item in enumerate(data[field]) of the utils validators
RECURSIVE utils_entries_errors(_, _, _)
utils_entries_errors(l, i, reorganization) ==
    IF i > Len(l) THEN <<>>
    ELSE (IF reorganization THEN utils_move_errors(i - 1, l[i])
          ELSE utils_suggestion_errors(i - 1, l[i]))
         \o utils_entries_errors(l, i + 1, reorganization)

\* utils.validate_suggestions
utils_validate_suggestions(d) ==
    IF d.t # "obj" THEN <<Message(Root, <<"Root must be a JSON object">>, NoData)>>
    ELSE IF "items" \notin DOMAIN d.f
    THEN <<Message(Root, <<"Missing required field", "items">>, NoData)>>
    ELSE IF d.f.items.t # "list"
    THEN <<Message(Root, <<"must be a list", "items">>, NoData)>>
    ELSE IF Len(d.f.items.l) = 0 THEN <<>>
    ELSE utils_entries_errors(d.f.items.l, 1, FALSE)

\* utils.validate_reorganization
utils_validate_reorganization(d) ==
    IF d.t # "obj" THEN <<Message(Root, <<"Root must be a JSON object">>, NoData)>>
    ELSE IF "moves" \notin DOMAIN d.f
    THEN <<Message(Root, <<"Missing required field", "moves">>, NoData)>>
    ELSE IF d.f.moves.t # "list"
    THEN <<Message(Root, <<"must be a list", "moves">>, NoData)>>
    ELSE IF Len(d.f.moves.l) = 0 THEN <<>>
    ELSE utils_entries_errors(d.f.moves.l, 1, TRUE)

\* a field a descriptor leaves out
Absent == [t |-> "absent"]

\* the values of an item_key: a key, a lowercase key, keys of 7 and of 9
\* characters, a key followed by a newline, a key with a blank, the empty
\* string, a number and null
KeyValues ==
    {Str(ItemA), Str(ItemLower), Str(SubSeq(ItemA, 1, 7)), Str(ItemA \o <<"5">>),
     Str(ItemA \o <<"\n">>), Str(<<" ">> \o SubSeq(ItemA, 1, 7)), Str(<<>>),
     Num(0), NoData}

\* the values of a path: one, three and four segments, three slashes and
\* nothing else, the empty string, a blank string, a number and null
PathValues ==
    {Str(PathA), Str(PathABA), Str(PathDeep), Str(<<"/", "/", "/">>), Str(<<>>),
     Str(<<" ", "\t">>), Num(0), NoData}

\* the values of tags: one tag, five, six, a number among them, six numbers,
\* and a value that is no list
TagValues ==
    {List(<<Str(TagX)>>), List([i \in 1..MaxTags |-> Str(TagX)]),
     List([i \in 1..(MaxTags + 1) |-> Str(TagX)]), List(<<Str(TagX), Num(0)>>),
     List([i \in 1..(MaxTags + 1) |-> Num(0)]), Num(0)}

\* the object with the fields of names that are not left out
object_of(names, values) ==
    Obj([n \in {m \in DOMAIN values : m \in names /\ values[m] # Absent} |-> values[n]])

\* the entries of a suggestions file, by the values of their fields
ItemShapes ==
    {object_of({"item_key", "collection_path", "tags"},
               [item_key |-> k, collection_path |-> p, tags |-> t]) :
        k \in KeyValues \cup {Absent}, p \in PathValues \cup {Absent},
        t \in TagValues \cup {Absent}}
    \cup
    {object_of({"item_key", "collection_path", "title", "reasoning"},
               [item_key |-> Str(ItemA), collection_path |-> Str(PathA),
                title |-> x, reasoning |-> y]) :
        x \in {Absent, Str(TitleT), Num(0)}, y \in {Absent, Str(TitleT), Num(0)}}
    \cup {Num(0), Str(ItemA), List(<<>>)}

\* the entries of a reorganization file
MoveShapes ==
    {object_of({"item_key", "current_path", "new_path"},
               [item_key |-> k, current_path |-> c, new_path |-> p]) :
        k \in {Str(ItemA), Str(ItemLower), Str(ItemA \o <<"\n">>), Absent},
        c \in PathValues \cup {Absent}, p \in PathValues \cup {Absent}}
    \cup
    {object_of({"item_key", "current_path", "new_path", "title", "reasoning"},
               [item_key |-> Str(ItemA), current_path |-> Str(PathA),
                new_path |-> Str(PathA), title |-> x, reasoning |-> y]) :
        x \in {Absent, Num(0)}, y \in {Absent, Num(0)}}
    \cup {Num(0), Str(ItemA), List(<<>>)}

\* entries of files with several entries: one without a violation, one with
\* two, one that is no object
SeveralItems ==
    {Suggestion(ItemA, PathA), Suggestion(ItemLower, PathDeep), Num(0)}

SeveralMoves ==
    {Move(ItemA, PathDeep, PathA), Move(ItemLower, PathA, PathDeep), Num(0)}

\* descriptors whose top level is no list of entries
NoList(field) ==
    Malformed \cup {NoData, List(<<>>)}
    \cup {Obj([n \in {field} |-> v]) : v \in {NoData, Str(<<>>), Obj(<<>>), Num(1)}}

\* the files handed to validate_suggestions
ItemDescriptors ==
    {Obj([items |-> List(<<e>>)]) : e \in ItemShapes}
    \cup {Obj([items |-> List(l)]) : l \in SeqsUpTo(SeveralItems, MaxBatch)}
    \cup NoList("items")

\* the files handed to validate_reorganization
MoveDescriptors ==
    {Obj([moves |-> List(<<e>>)]) : e \in MoveShapes}
    \cup {Obj([moves |-> List(l)]) : l \in SeqsUpTo(SeveralMoves, MaxBatch)}
    \cup NoList("moves")

\* a validator returned: the function, its argument and what it returned
Validated(function, argument, returned) ==
    /\ prog' = function
    /\ data' = argument
    /\ log' = <<returned>>
    /\ started' = 1
    /\ UNCHANGED <<owner, clock, db, backups, conn, backup_path, tx, opened, gate,
                   pc, call, idx, existing_collections, collection_keys, exc,
                   outcome>>

\* apply_suggestions.validate_suggestions(data), called once
ValidateSuggestions(d) ==
    /\ pc = "idle"
    /\ started = 0
    /\ Validated("validate_suggestions", d, validate_suggestions(d))

\* apply_reorganization.validate_reorganization(data), called once
ValidateReorganization(d) ==
    /\ pc = "idle"
    /\ started = 0
    /\ Validated("validate_reorganization", d, validate_reorganization(d))

\* utils.validate_item_key(item_key, "Item 0"), called once
ValidateItemKey(v) ==
    /\ pc = "idle"
    /\ started = 0
    /\ Validated("validate_item_key", v, validate_item_key(v, <<0>>))

\* utils.validate_collection_path(path, "collection_path", "Item 0"), called once
ValidateCollectionPath(v) ==
    /\ pc = "idle"
    /\ started = 0
    /\ Validated("validate_collection_path", v,
                 validate_collection_path(v, "collection_path", <<0>>))

\* utils.validate_suggestions(data), called once
UtilsValidateSuggestions(d) ==
    /\ pc = "idle"
    /\ started = 0
    /\ Validated("utils.validate_suggestions", d, utils_validate_suggestions(d))

\* utils.validate_reorganization(data), called once
UtilsValidateReorganization(d) ==
    /\ pc = "idle"
    /\ started = 0
    /\ Validated("utils.validate_reorganization", d, utils_validate_reorganization(d))

InitValidate ==
    /\ InitFrom(EmptyCatalog)
    /\ owner = FALSE

NextValidate ==
    \/ \E d \in ItemDescriptors : ValidateSuggestions(d)
    \/ \E d \in MoveDescriptors : ValidateReorganization(d)
    \/ \E d \in ItemDescriptors : UtilsValidateSuggestions(d)
    \/ \E d \in MoveDescriptors : UtilsValidateReorganization(d)
    \/ \E v \in KeyValues : ValidateItemKey(v)
    \/ \E v \in PathValues : ValidateCollectionPath(v)

SpecValidate == InitValidate /\ [][NextValidate]_vars

-----------------------------------------------------------------------------
(* A client of the store that runs several operations in one write session,
   and cleanup_duplicates.py *)

TagY == <<"y">>

\* the numbers of the set S in ascending order
RECURSIVE ascending(_)
ascending(S) ==
    IF S = {} THEN <<>>
    ELSE The({<<m>> \o ascending(S \ {m}) : m \in {CHOOSE x \in S : \A y \in S : x <= y}})

\* cleanup_duplicates: for item_id in item_ids: the item gets the next
\* orderIndex of the keeper unless the keeper holds it
RECURSIVE move_items(_, _, _)
move_items(c, keeper_id, item_ids) ==
    IF Len(item_ids) = 0 THEN c
    ELSE The({move_items(c1, keeper_id, Tail(item_ids)) :
              c1 \in {IF \E l \in c.collectionItems :
                             l.collectionID = keeper_id /\ l.itemID = Head(item_ids)
                      THEN c
                      ELSE [c EXCEPT !.collectionItems = @ \cup
                               {[collectionID |-> keeper_id, itemID |-> Head(item_ids),
                                 orderIndex |-> next_order_index(c, keeper_id)]}]}})

\* cleanup_duplicates: the body of the loop for one duplicate: its items go to
\* the keeper (SELECT itemID, taken in itemID order), then its links and its
\* row are deleted
remove_duplicate(c, keeper_id, dup_id) ==
    The({[c1 EXCEPT !.collectionItems = {l \in @ : l.collectionID # dup_id},
                    !.collections = {r \in @ : r.collectionID # dup_id}] :
         c1 \in {move_items(c, keeper_id,
                     ascending({l.itemID : l \in {m \in c.collectionItems :
                                                     m.collectionID = dup_id}}))}})

\* path_groups of the snapshot rows: the pairs <<keeper, duplicate>> of
\* indices, in the order the two loops reach them
duplicate_pairs(rows) ==
    LET keeper(n) == CHOOSE m \in 1..n :
                         /\ rows[m].path = rows[n].path
                         /\ \A k \in 1..(m - 1) : rows[k].path # rows[n].path
        rank == ascending({keeper(n) * (Len(rows) + 1) + n :
                              n \in {k \in 1..Len(rows) : keeper(k) # k}})
    IN  [i \in 1..Len(rank) |->
            <<rank[i] \div (Len(rows) + 1), rank[i] % (Len(rows) + 1)>>]

RECURSIVE remove_duplicates(_, _, _)
remove_duplicates(c, rows, pairs) ==
    IF Len(pairs) = 0 THEN c
    ELSE The({remove_duplicates(c1, rows, Tail(pairs)) :
              c1 \in {remove_duplicate(c, rows[Head(pairs)[1]].collectionID,
                                          rows[Head(pairs)[2]].collectionID)}})

\* cleanup_duplicate_collections(): the tables when the with block is left
cleanup_duplicate_collections(c) ==
    The({remove_duplicates(c, rows, duplicate_pairs(rows)) : rows \in {list_collections(c)}})

\* the library with a second item, in no collection
TwoItems(c) == [c EXCEPT !.items = @ \cup {[itemID |-> 2, key |-> ItemB]}]

\* two root collections named A: the first holds the first item, the second
\* holds both items
CatalogDup ==
    [TwoItems(CatalogA) EXCEPT
        !.collections = @ \cup {[collectionID |-> 2, collectionName |-> NameA,
                                 parentCollectionID |-> 0, key |-> KeyPool[2]]},
        !.collectionItems = @ \cup {[collectionID |-> 2, itemID |-> 1, orderIndex |-> 0],
                                    [collectionID |-> 2, itemID |-> 2, orderIndex |-> 1]}]

StoreCatalogs == {TwoItems(CatalogA), CatalogDup}

\* the operations one write session may run
MaxOps == 3

\* the calls of the client: collections under the root and under A, links of
\* both items to two collections, unlinks, and tag lists with and without a
\* repeated name
StoreCalls ==
    {[NoCall EXCEPT !.op = "create_collection", !.read_only = FALSE,
                    !.name = NameA, !.key = k] : k \in {None, KeyPool[1]}}
    \cup
    {[NoCall EXCEPT !.op = "add_to_collection", !.read_only = FALSE,
                    !.item = i, !.key = k] :
        i \in {ItemA, ItemB}, k \in {KeyPool[1], KeyPool[2]}}
    \cup
    {[NoCall EXCEPT !.op = "remove_from_collection", !.read_only = FALSE,
                    !.item = i, !.key = KeyPool[1]] : i \in {ItemA, ItemB}}
    \cup
    {[NoCall EXCEPT !.op = "add_tags", !.read_only = FALSE, !.item = ItemA,
                    !.tags = t] : t \in {<<TagX>>, <<TagX, TagX, TagY>>}}

\* generate_key() in the tables c: a key no collection carries, or the key
\* of the first collection of the pool again
Draws(c) == {generate_key(c)} \cup ({KeyPool[1]} \cap {r.key : r \in c.collections})

\* the results an operation of the client can have
store_results(c, mode, k) ==
    IF k.op = "create_collection"
    THEN {create_collection_with(key, unique, c, mode, k.name, k.key) :
             key \in Draws(c), unique \in BOOLEAN}
    ELSE {run_call(c, mode, k)}

\* what the log keeps of one operation: the call, the exception, the value
\* returned, the orderIndex of the link it inserted (-1 if none), and
\* whether it changed a table
Done(k, r, c) ==
    [op |-> k.op, item |-> k.item, key |-> k.key, tags |-> k.tags,
     exc |-> r.exc, ret |-> r.ret,
     assigned |-> IF r.cat.collectionItems \subseteq c.collectionItems THEN 0 - 1
                  ELSE (CHOOSE l \in r.cat.collectionItems \ c.collectionItems : TRUE).orderIndex,
     changed |-> r.cat # c,
     removed |-> {}]

\* the mark a session leaves in the log when it starts: removed holds the
\* keys of the collections a cleanup deleted
Mark(name, removed) ==
    [op |-> name, item |-> None, key |-> None, tags |-> <<>>, exc |-> "none",
     ret |-> None, assigned |-> 0 - 1, changed |-> FALSE, removed |-> removed]

\* the operations of the client's session: the log after its mark
session_ops ==
    LET marks == {i \in 1..Len(log) : log[i].op = "connect"}
    IN  IF marks = {} THEN <<>> ELSE SubSeq(log, Max(marks) + 1, Len(log))

\* with backend.connect(read_only=False) as backend: of the client
StoreOpen ==
    /\ pc = "idle"
    /\ \A i \in 1..Len(log) : log[i].op # "connect"
    /\ \E r \in {connect(FALSE, owner, backups, clock, db)} :
          /\ conn' = r.mode
          /\ backups' = r.files
          /\ backup_path' = r.path
          /\ gate' = IF r.mode = "rw" THEN gate + 1 ELSE gate
          /\ pc' = IF r.raised THEN "idle" ELSE "body"
          /\ outcome' = IF r.raised THEN "busy" ELSE "running"
    /\ prog' = "store"
    /\ log' = Append(log, Mark("connect", {}))
    /\ started' = started + 1
    /\ tx' = db
    /\ opened' = db
    /\ exc' = "none"
    /\ UNCHANGED <<owner, clock, db, call, data, idx, existing_collections,
                   collection_keys>>

\* one operation of the client inside the with block; an exception leaves
\* the block, and so does the end of the client's script (last)
StoreOp(k) ==
    /\ pc = "body"
    /\ prog = "store"
    /\ Len(session_ops) < MaxOps
    /\ \E r \in store_results(tx, conn, k), last \in BOOLEAN :
          /\ tx' = r.cat
          /\ exc' = r.exc
          /\ log' = Append(log, Done(k, r, tx))
          /\ pc' = IF r.exc # "none" \/ last THEN "exit" ELSE "body"
    /\ call' = k
    /\ UNCHANGED <<owner, clock, db, backups, conn, backup_path, opened, gate,
                   prog, data, idx, existing_collections, collection_keys,
                   outcome, started>>

\* cleanup_duplicate_collections() up to the end of the with block
CleanupDuplicates ==
    /\ pc = "idle"
    /\ \A i \in 1..Len(log) : log[i].op # "cleanup"
    /\ \E r \in {connect(FALSE, owner, backups, clock, db)} :
          /\ conn' = r.mode
          /\ backups' = r.files
          /\ backup_path' = r.path
          /\ gate' = IF r.mode = "rw" THEN gate + 1 ELSE gate
          /\ pc' = IF r.raised THEN "idle" ELSE "exit"
          /\ outcome' = IF r.raised THEN "busy" ELSE "running"
          /\ \E c \in {IF r.raised THEN db ELSE cleanup_duplicate_collections(db)} :
                /\ tx' = c
                /\ log' = Append(log, Mark("cleanup",
                              {q.key : q \in db.collections} \ {q.key : q \in c.collections}))
    /\ prog' = "cleanup"
    /\ started' = started + 1
    /\ opened' = db
    /\ exc' = "none"
    /\ UNCHANGED <<owner, clock, db, call, data, idx, existing_collections,
                   collection_keys>>

InitStore ==
    /\ \E c \in StoreCatalogs : InitFrom(c)
    /\ owner = FALSE

NextStore ==
    \/ StoreOpen
    \/ \E k \in StoreCalls : StoreOp(k)
    \/ CleanupDuplicates
    \/ Exit

SpecStore == InitStore /\ [][NextStore]_vars

-----------------------------------------------------------------------------
(* Properties of the sessions (specification Spec) *)

\* C1: while a read-write session holds its connection, the backup that its
\* connect made exists and holds the database as it was before the session
\* ran any statement; the database file itself is still in that state, and
\* the connection has run no statement before the backup was there.
BackupBeforeWrite ==
    conn = "rw" =>
        /\ backup_path \in DOMAIN backups
        /\ backups[backup_path] = opened
        /\ db = opened
        /\ pc = "body" => tx = opened

\* a write session has run a statement, and its backup holds the state before
BackupBeforeWriteReached ==
    /\ conn = "rw"
    /\ pc = "exit"
    /\ tx # opened
    /\ backups[backup_path] = opened

\* C2: connect(read_only=False) run while the owner holds the database raises
\* and does nothing else: no backup file, no connection, the database as it
\* was.
BusyConnectDoesNothing ==
    [][(started' # started /\ ~call'.read_only /\ owner)
          => /\ outcome' = "busy"
             /\ backups' = backups
             /\ conn' = "none"
             /\ backup_path' = NoPath
             /\ gate' = gate
             /\ db' = db
             /\ pc' = "idle"]_vars

\* a write call was refused while the owner held the database
BusyConnectReached ==
    /\ outcome = "busy"
    /\ owner
    /\ ~call.read_only
    /\ call.op \in MutationOps

\* C3: when a read-write session is left with an exception the database is
\* what it was when the session was opened (every row the session wrote is
\* gone, the collections it created included); when it is left normally the
\* database is what the connection wrote.
ExitRollsBackOrCommits ==
    [][(conn = "rw" /\ conn' = "none")
          => db' = IF exc # "none" THEN opened ELSE tx]_vars

\* a write session that had created a collection was left with an exception
RollbackReached ==
    /\ outcome = "aborted"
    /\ ~call.read_only
    /\ tx.collections # opened.collections
    /\ db = opened

OneBackupPerWriteSession ==
    Cardinality(DOMAIN backups) = gate

\* a statement a read-only connection can run to its end: the link is there
\* already (add_to_collection), or every tag is on the item already (add_tags)
nothing_to_write(c, k) ==
    \/ /\ k.op = "add_to_collection"
       /\ \E i \in c.items, col \in c.collections :
             /\ i.key = k.item
             /\ col.key = k.key
             /\ \E l \in c.collectionItems :
                   l.itemID = i.itemID /\ l.collectionID = col.collectionID
    \/ /\ k.op = "add_tags"
       /\ \E i \in c.items :
             /\ i.key = k.item
             /\ \A n \in 1..Len(k.tags) :
                   \E t \in c.tags :
                      /\ t.name = k.tags[n]
                      /\ \E it \in c.itemTags :
                            it.itemID = i.itemID /\ it.tagID = t.tagID

\* C6 (as stated): a read-only session passes no probe and makes no backup,
\* opens whoever holds the database, changes no row, and every mutation
\* operation run in it raises.
ReadOnlyMutationAlwaysFails ==
    [][/\ (started' # started /\ call'.read_only)
             => /\ conn' = "ro"
                /\ backups' = backups
                /\ gate' = gate
                /\ backup_path' = NoPath
       /\ conn = "ro" => (tx' = tx /\ db' = db /\ backups' = backups)
       /\ (conn = "ro" /\ pc = "body" /\ pc' = "exit" /\ call.op \in MutationOps)
             => run_call(tx, conn, call).exc # "none"]_vars

\* C6 (amended): as stated, but a mutation operation that finds nothing to
\* write (the link or the tags are there already) returns without raising;
\* every other mutation operation raises.
ReadOnlyMutationFailsOrIsVoid ==
    [][/\ (started' # started /\ call'.read_only)
             => /\ conn' = "ro"
                /\ backups' = backups
                /\ gate' = gate
                /\ backup_path' = NoPath
       /\ conn = "ro" => (tx' = tx /\ db' = db /\ backups' = backups)
       /\ (conn = "ro" /\ pc = "body" /\ pc' = "exit" /\ call.op \in MutationOps)
             => (run_call(tx, conn, call).exc = "none" <=> nothing_to_write(tx, call))]_vars

\* in a read-only session opened while the owner held the database, a
\* mutation operation that found nothing to write returned without raising
ReadOnlyVoidReached ==
    /\ conn = "ro"
    /\ pc = "exit"
    /\ call.op \in MutationOps
    /\ exc = "none"
    /\ owner

-----------------------------------------------------------------------------
(* Properties of the batch appliers (specification SpecBatch) *)

\* the entries of a valid descriptor
entries_of(program, d) ==
    IF program = "suggestions" THEN d.f.items.l ELSE d.f.moves.l

\* C7: a descriptor the validator finds a violation in ends the applier
\* before connect: the owner is not looked for (the outcome is "invalid" even
\* while the owner holds the database), there is no backup, no connection,
\* no entry is gone through and the database is unchanged.
InvalidBatchOpensNoSession ==
    (\/ prog = "suggestions" /\ validate_suggestions(data) # <<>>
     \/ prog = "reorganization" /\ validate_reorganization(data) # <<>>)
        => /\ outcome = "invalid"
           /\ conn = "none"
           /\ backups = <<>>
           /\ backup_path = NoPath
           /\ gate = 0
           /\ log = <<>>
           /\ db = opened
           /\ tx = opened
           /\ pc = "idle"

\* a descriptor with an entry of too deep a path was refused while the owner
\* held the database
InvalidBatchReached ==
    /\ prog = "reorganization"
    /\ outcome = "invalid"
    /\ owner
    /\ data.t = "obj"
    /\ "moves" \in DOMAIN data.f
    /\ data.f.moves.t = "list"
    /\ Len(data.f.moves.l) = MaxBatch

\* what an applied entry wrote is in the tables c: the collections it
\* created and, for a suggestion, the link of its item to the leaf
effects_in(c, program, e) ==
    /\ \A n \in 1..Len(e.created) :
          \E col \in c.collections : col.key = e.created[n].key
    /\ program = "suggestions" =>
          \E i \in c.items, col \in c.collections, l \in c.collectionItems :
             /\ i.key = e.item
             /\ col.key = e.leaf
             /\ l.itemID = i.itemID
             /\ l.collectionID = col.collectionID

\* C8 (as stated): when the applier of a valid batch has ended, every entry
\* was gone through, whichever of them raised, and what the entries that
\* succeeded wrote is in the database.
EntryFailureIsLocal ==
    (prog \in {"suggestions", "reorganization"} /\ outcome \in {"done", "aborted"})
        => /\ Len(log) = Len(entries_of(prog, data))
           /\ \A i \in 1..Len(log) :
                 log[i].status = "applied" => effects_in(db, prog, log[i])

\* C9 (as stated): when a reorganization in which a move was skipped for its
\* current_path has ended, every move whose current_path is in the snapshot
\* was applied and the session committed.
SkippedMoveStopsNothing ==
    (/\ prog = "reorganization"
     /\ outcome \in {"done", "aborted"}
     /\ \E i \in 1..Len(log) : log[i].status = "skipped")
        => /\ outcome = "done"
           /\ db = tx
           /\ \A i \in 1..Len(data.f.moves.l) :
                 first_with_path(existing_collections,
                                 data.f.moves.l[i].f.current_path.s) # None
                    => i <= Len(log) /\ log[i].status = "applied"

\* C10: two resolutions of one path in one session end with the same leaf
\* key, the later one creates nothing, and no resolution creates a prefix of
\* the path twice.
ResolveTwiceSameLeaf ==
    \A i, j \in 1..Len(log) :
        (i < j /\ log[i].path = log[j].path
               /\ log[i].leaf # None /\ log[j].leaf # None)
            => /\ log[j].leaf = log[i].leaf
               /\ log[j].created = <<>>
               /\ \A m, n \in 1..Len(log[i].created) :
                     log[i].created[m].path = log[i].created[n].path => m = n

\* a path of three segments was resolved twice, the first time creating
\* collections
ResolveTwiceReached ==
    \E i, j \in 1..Len(log) :
        /\ i < j
        /\ log[i].path = PathABA
        /\ log[j].path = PathABA
        /\ Len(log[i].created) >= 2
        /\ log[j].leaf = log[i].leaf
        /\ log[j].leaf # None

-----------------------------------------------------------------------------
(* Properties of path resolution (specification SpecBatch) *)

\* the paths of the proper prefixes of the path p
prefixes(p) == {join(SubSeq(split(p), 1, k)) : k \in 1..(Len(split(p)) - 1)}

\* the createNode calls of the session so far that were made for the path x
creations_of(x) ==
    {<<i, n>> \in (1..Len(log)) \X (1..MaxDepth) :
        n <= Len(log[i].created) /\ log[i].created[n].path = x}

\* the parent row, in the tables c, of the collection with the key k
parent_rows(c, k) ==
    {q \in c.collections :
        \E r \in c.collections : r.key = k /\ r.parentCollectionID = q.collectionID}

\* C11: when two paths resolved in one session share a proper prefix, at most
\* one createNode call of the session was made for that prefix, and when the
\* prefix is the parent path of both, the two leaves have the same single
\* parent node, which is the node created for the prefix if one was created.
SharedPrefixCreatedOnce ==
    \A i, j \in 1..Len(log) :
        (i < j /\ log[i].leaf # None /\ log[j].leaf # None /\ log[i].path # log[j].path)
            => \A x \in prefixes(log[i].path) \cap prefixes(log[j].path) :
                  /\ Cardinality(creations_of(x)) <= 1
                  /\ (Len(split(log[i].path)) = Len(split(x)) + 1
                        /\ Len(split(log[j].path)) = Len(split(x)) + 1)
                      => /\ Cardinality(parent_rows(tx, log[i].leaf)) = 1
                         /\ parent_rows(tx, log[j].leaf) = parent_rows(tx, log[i].leaf)
                         /\ \A w \in creations_of(x) :
                               \A q \in parent_rows(tx, log[i].leaf) :
                                   q.key = log[w[1]].created[w[2]].key

\* A/B/A was resolved, creating A/B, and then A/B/B was resolved under it
SharedPrefixReached ==
    \E i, j \in 1..Len(log) :
        /\ i < j
        /\ log[i].path = PathABA
        /\ log[j].path = PathABB
        /\ log[i].leaf # None
        /\ log[j].leaf # None
        /\ \E n \in 1..Len(log[i].created) : log[i].created[n].path = PathAB
        /\ log[j].created # <<>>

\* the snapshot of the session has a row whose computed path is x
in_snapshot(x) == \E k \in 1..Len(existing_collections) : existing_collections[k].path = x

\* C12: whenever a resolve call of a session creates nodes, none of them is
\* created for a path_so_far that a snapshot row has as its computed path or
\* that the session's dictionary of created keys (the cache) had an entry for
\* when the call began, and no path_so_far is created twice within the call.
CreatesOnlyUnresolvedPaths ==
    [][Len(log') = Len(log) + 1
        => \A n \in 1..Len(log'[Len(log')].created) :
              /\ ~in_snapshot(log'[Len(log')].created[n].path)
              /\ log'[Len(log')].created[n].path \notin DOMAIN collection_keys
              /\ \A m \in 1..(n - 1) :
                    log'[Len(log')].created[m].path # log'[Len(log')].created[n].path]_vars

\* with A in the snapshot, A/B was resolved creating only A/B, and then
\* A/B/A was resolved creating only A/B/A
CreatesOnlyUnresolvedReached ==
    /\ in_snapshot(PathA)
    /\ \E i, j \in 1..Len(log) :
          /\ i < j
          /\ log[i].path = PathAB
          /\ Len(log[i].created) = 1
          /\ log[i].created[1].path = PathAB
          /\ log[j].path = PathABA
          /\ Len(log[j].created) = 1
          /\ log[j].created[1].path = PathABA

\* the path of the parent of the path p, which has more than one part
parent_path(p) == join(SubSeq(split(p), 1, Len(split(p)) - 1))

\* C13: when the snapshot has a row whose computed path is a level's
\* path_so_far and the cache has an entry for it too, the key used for the
\* level, as the leaf and as the parent of the node created below it, is the
\* snapshot row's key.
SnapshotKeyWins ==
    \A i \in 1..Len(log) :
        log[i].leaf # None
            => /\ (in_snapshot(log[i].path) /\ log[i].path \in DOMAIN collection_keys)
                   => log[i].leaf = first_with_path(existing_collections, log[i].path)
               /\ \A n \in 1..Len(log[i].created) :
                     (/\ Len(split(log[i].created[n].path)) > 1
                      /\ in_snapshot(parent_path(log[i].created[n].path))
                      /\ parent_path(log[i].created[n].path) \in DOMAIN collection_keys)
                         => log[i].created[n].parent =
                               first_with_path(existing_collections,
                                               parent_path(log[i].created[n].path))

\* the keys of the collections that exist when the n-th createNode call of
\* the i-th entry is made: those of the session's start and those created
\* before the call
keys_at_call(i, n) ==
    {r.key : r \in opened.collections}
    \cup {log[j].created[m].key : <<j, m>> \in
              {w \in (1..Len(log)) \X (1..MaxDepth) :
                  /\ w[2] <= Len(log[w[1]].created)
                  /\ w[1] < i \/ (w[1] = i /\ w[2] < n)}}

\* C14: the createNode calls of one resolve call go from the root to the
\* leaf: each is made for a prefix of the path, one part longer than the
\* call before it and with the key that call returned as parent; a call
\* passes no parent exactly when its path has one part, and a parent it
\* passes is the key of a node that exists at call time; an entry that
\* raised did so after its path was resolved, never in createNode.
TopDownCreation ==
    \A i \in 1..Len(log) :
        /\ log[i].status = "raised" => log[i].leaf # None
        /\ \A n \in 1..Len(log[i].created) :
              /\ log[i].created[n].path \in prefixes(log[i].path) \cup {log[i].path}
              /\ (log[i].created[n].parent = None)
                    <=> (Len(split(log[i].created[n].path)) = 1)
              /\ log[i].created[n].parent # None
                    => log[i].created[n].parent \in keys_at_call(i, n)
              /\ n > 1
                    => /\ Len(split(log[i].created[n].path))
                            = Len(split(log[i].created[n - 1].path)) + 1
                       /\ log[i].created[n].parent = log[i].created[n - 1].key

\* A/B/A was resolved in a library without A: three createNode calls, the
\* last two under the node of the call before
TopDownReached ==
    \E i \in 1..Len(log) :
        /\ log[i].path = PathABA
        /\ Len(log[i].created) = 3
        /\ log[i].created[3].parent = log[i].created[2].key
        /\ log[i].leaf = log[i].created[3].key

-----------------------------------------------------------------------------
(* Properties of the store operations (specification SpecStore) *)

\* the link rows, in the tables c, of the item and the collection with the
\* given keys
links_of(c, item_key, collection_key) ==
    {l \in c.collectionItems :
        /\ \E i \in c.items : i.key = item_key /\ i.itemID = l.itemID
        /\ \E r \in c.collections : r.key = collection_key /\ r.collectionID = l.collectionID}

\* the operation o is a call of the method op on the pair of p that raised
\* nothing
same_pair(o, op, p) == o.op = op /\ o.item = p.item /\ o.key = p.key /\ o.exc = "none"

\* C15: when a session links a pair twice and does not unlink it in between,
\* whatever it does to other pairs in between, the second linkItem raises
\* nothing, inserts no row and changes no table, and as long as the pair is
\* not unlinked there is exactly one link row for it.
LinkIdempotent ==
    prog = "store"
        => \A a, b \in 1..Len(session_ops) :
              (/\ a < b
               /\ same_pair(session_ops[a], "add_to_collection", session_ops[a])
               /\ session_ops[b].op = "add_to_collection"
               /\ session_ops[b].item = session_ops[a].item
               /\ session_ops[b].key = session_ops[a].key
               /\ \A m \in (a + 1)..(b - 1) :
                     ~same_pair(session_ops[m], "remove_from_collection", session_ops[a]))
                  => /\ session_ops[b].exc = "none"
                     /\ ~session_ops[b].changed
                     /\ session_ops[b].assigned = 0 - 1
                     /\ (\A m \in (b + 1)..Len(session_ops) :
                           ~same_pair(session_ops[m], "remove_from_collection", session_ops[a]))
                        => Cardinality(links_of(tx, session_ops[a].item,
                                                session_ops[a].key)) = 1

\* the second item was linked to A, then the first item to a collection,
\* then the second item to A again
LinkTwiceReached ==
    /\ prog = "store"
    /\ Len(session_ops) = 3
    /\ same_pair(session_ops[1], "add_to_collection", [item |-> ItemB, key |-> KeyPool[1]])
    /\ session_ops[1].assigned = 1
    /\ same_pair(session_ops[2], "add_to_collection", [item |-> ItemA, key |-> KeyPool[2]])
    /\ same_pair(session_ops[3], "add_to_collection", [item |-> ItemB, key |-> KeyPool[1]])
    /\ Cardinality(links_of(tx, ItemB, KeyPool[1])) = 1

\* the rows of itemTags, in the tables c, that associate the item with the
\* given key to a tag with the given name
associations_of(c, item_key, tag_name) ==
    {it \in c.itemTags :
        /\ \E i \in c.items : i.key = item_key /\ i.itemID = it.itemID
        /\ \E t \in c.tags : t.name = tag_name /\ t.tagID = it.tagID}

\* the names of the tag list of the operation o
names_of(o) == {o.tags[n] : n \in 1..Len(o.tags)}

\* C16: after the addTags calls of a session, with or without repeated
\* names in a list, every name has at most one tag row, every name of a call
\* that raised nothing has exactly one tag row and exactly one association
\* with the item, and a call whose names an earlier call of the session all
\* added raises nothing and changes no table.
TagsIdempotent ==
    prog = "store"
        => /\ \A t1, t2 \in tx.tags : t1.name = t2.name => t1 = t2
           /\ \A b \in 1..Len(session_ops) :
                 (session_ops[b].op = "add_tags" /\ session_ops[b].exc = "none")
                    => /\ \A x \in names_of(session_ops[b]) :
                             /\ Cardinality({t \in tx.tags : t.name = x}) = 1
                             /\ Cardinality(associations_of(tx, session_ops[b].item, x)) = 1
                       /\ (\E a \in 1..(b - 1) :
                              /\ session_ops[a].op = "add_tags"
                              /\ session_ops[a].exc = "none"
                              /\ session_ops[a].item = session_ops[b].item
                              /\ names_of(session_ops[b]) \subseteq names_of(session_ops[a]))
                          => ~session_ops[b].changed

\* the list x, x, y was added to the item, then the list x, then the list
\* x, x, y again
TagsTwiceReached ==
    /\ prog = "store"
    /\ Len(session_ops) = 3
    /\ \A b \in 1..3 : session_ops[b].op = "add_tags" /\ session_ops[b].exc = "none"
    /\ session_ops[1].tags = <<TagX, TagX, TagY>>
    /\ session_ops[1].changed
    /\ session_ops[2].tags = <<TagX>>
    /\ session_ops[3].tags = <<TagX, TagX, TagY>>
    /\ Cardinality(tx.itemTags) = 2

\* C17: the order positions that the linkItem calls of a session assign
\* within one node grow strictly from one assignment to the next, so that no
\* value is assigned twice, whatever unlinkItem removed in between.
PositionsNeverReused ==
    prog = "store"
        => \A a, b \in 1..Len(session_ops) :
              (/\ a < b
               /\ session_ops[a].op = "add_to_collection"
               /\ session_ops[b].op = "add_to_collection"
               /\ session_ops[a].key = session_ops[b].key
               /\ session_ops[a].assigned >= 0
               /\ session_ops[b].assigned >= 0)
                  => session_ops[a].assigned < session_ops[b].assigned

\* in the tables c no two links of one collection have one position or one
\* item
links_well_formed(c) ==
    \A l1, l2 \in c.collectionItems :
        (/\ l1.collectionID = l2.collectionID
         /\ l1.orderIndex = l2.orderIndex \/ l1.itemID = l2.itemID)
            => l1 = l2

\* the links of the collection with the id n that are in the tables d and
\* not in the tables c
new_links(c, d, n) == {l \in d.collectionItems \ c.collectionItems : l.collectionID = n}

\* the positions that follow the highest position of the collection with
\* the id n in the tables c, as many as count
next_positions(c, n, count) ==
    {p \in 0..(Max({m.orderIndex : m \in c.collectionItems} \cup {0}) + count) :
        /\ \A m \in c.collectionItems : m.collectionID = n => p > m.orderIndex
        /\ Cardinality({k \in 0..(p - 1) :
                \A m \in c.collectionItems : m.collectionID = n => k > m.orderIndex})
              < count}

\* a step of a store call inserts links at the next position of their
\* collection only
store_step_positions ==
    (pc = "body" /\ prog = "store")
        => \A l \in tx'.collectionItems \ tx.collectionItems :
              {l.orderIndex} = next_positions(tx, l.collectionID, 1)

\* the step of the cleanup moves links to the next positions of their
\* collection only
cleanup_step_positions ==
    (pc = "idle" /\ pc' = "exit" /\ prog' = "cleanup")
        => \A r \in db.collections :
              {l.orderIndex : l \in new_links(db, tx', r.collectionID)}
                 = next_positions(db, r.collectionID,
                                  Cardinality(new_links(db, tx', r.collectionID)))

\* C18: in every state, in the session's view and in the database, no two
\* links of one node have the same position and no (node, item) pair has
\* two links; a link a store call inserts gets 0 in a node without links
\* and the highest position of the node plus one otherwise, and the links
\* the cleanup moves into a node get the positions that follow the node's
\* highest, one after the other.
LinkPositions ==
    /\ [](links_well_formed(tx) /\ links_well_formed(db))
    /\ [][store_step_positions /\ cleanup_step_positions]_vars

\* a session created a second collection A and linked both items to it, at
\* the positions 0 and 1, and committed; then the cleanup moved the second
\* item to the first collection A, behind the first item, and committed
LinkPositionsReached ==
    /\ prog = "cleanup"
    /\ outcome = "done"
    /\ \E a, b \in 1..Len(log) :
          /\ a < b
          /\ same_pair(log[a], "add_to_collection", [item |-> ItemA, key |-> KeyPool[2]])
          /\ log[a].assigned = 0
          /\ same_pair(log[b], "add_to_collection", [item |-> ItemB, key |-> KeyPool[2]])
          /\ log[b].assigned = 1
    /\ Cardinality(db.collections) = 1
    /\ db.collectionItems = {[collectionID |-> 1, itemID |-> 1, orderIndex |-> 0],
                              [collectionID |-> 1, itemID |-> 2, orderIndex |-> 1]}

\* no two collections of the tables c have one key
keys_unique(c) == \A r1, r2 \in c.collections : r1.key = r2.key => r1 = r2

\* the key is one generate_key() can return: 8 characters of A-Z and 0-9
generated(key) ==
    /\ Len(key) = GeneratedKeyLen
    /\ \A n \in 1..Len(key) : key[n] \in Upper \cup Digit

\* the i-th entry of the log is a createNode call that returned a key
created_at(i) == log[i].op = "create_collection" /\ log[i].exc = "none"

\* C19 as the spec states it: no two nodes share a key, and every key that
\* createNode returned is 8 characters of A-Z and 0-9 and is the key of no
\* node that existed when the session began, of no node a cleanup deleted
\* before, and of no node created earlier.
KeysNeverReused ==
    /\ keys_unique(tx)
    /\ prog = "store"
          => \A b \in 1..Len(log) :
                created_at(b)
                   => /\ generated(log[b].ret)
                      /\ \A q \in opened.collections : q.key # log[b].ret
                      /\ \A a \in 1..(b - 1) :
                            /\ log[b].ret \notin log[a].removed
                            /\ created_at(a) => log[a].ret # log[b].ret

\* a createNode step whose draw is the key of no node keeps the keys of the
\* nodes distinct
fresh_draw_keeps_keys_unique ==
    (/\ pc = "body"
     /\ prog = "store"
     /\ Len(log') = Len(log) + 1
     /\ created_at(Len(log))'
     /\ \A q \in tx.collections : q.key # log'[Len(log')].ret
     /\ keys_unique(tx))
        => /\ keys_unique(tx')
           /\ \E q \in tx'.collections \ tx.collections : q.key = log'[Len(log')].ret

\* C19, amended: every key createNode returns is 8 characters of A-Z and
\* 0-9, and a createNode whose draw is the key of no existing node keeps the
\* keys of the nodes distinct and stores the key it returns.
KeysUniqueWhileDrawsAreFresh ==
    /\ [](\A b \in 1..Len(log) : created_at(b) => generated(log[b].ret))
    /\ [][fresh_draw_keeps_keys_unique]_vars

\* a session created a collection with a key no node had: two nodes, two
\* keys
FreshDrawReached ==
    /\ prog = "store"
    /\ Len(session_ops) >= 1
    /\ created_at(Len(log))
    /\ \A q \in opened.collections : q.key # log[Len(log)].ret
    /\ Cardinality({q.key : q \in tx.collections}) = Cardinality(tx.collections)
    /\ Cardinality(tx.collections) >= 2

-----------------------------------------------------------------------------
(* Properties of createNode (specification Spec) *)

\* the create_collection tool has run its store call on a writable session
created_by_tool == pc = "exit" /\ prog = "tool" /\ call.op = "create_collection" /\ conn = "rw"

\* the collections of the session's start that have the key of the call
named_parents == {r \in opened.collections : r.key = call.key}

\* the call inserted exactly one collection, with the parent id n
inserted_under(n) ==
    /\ opened.collections \subseteq tx.collections
    /\ Cardinality(tx.collections \ opened.collections) = 1
    /\ \A r \in tx.collections \ opened.collections :
          r.parentCollectionID = n /\ r.collectionName = call.name

\* C20 as the spec states it: createNode raises the not-found error and
\* inserts nothing whenever parentKey is not null and names no node; with a
\* null parentKey it inserts a root node; with a parentKey that names a node
\* it inserts a node whose parent is that node.
CreateNodeParentNotNull ==
    created_by_tool
        => /\ (call.key # None /\ named_parents = {})
                => exc = "ValueError" /\ tx = opened
           /\ call.key = None => inserted_under(0)
           /\ named_parents # {}
                => \E q \in named_parents : inserted_under(q.collectionID)

\* C20, amended: createNode raises the not-found error and inserts nothing
\* whenever parentKey is a non-empty string that names no node; with a null
\* or empty parentKey it inserts a root node; with a parentKey that names a
\* node it inserts a node whose parent is that node.
CreateNodeParentTruthy ==
    created_by_tool
        => /\ (truthy(call.key) /\ named_parents = {})
                => exc = "ValueError" /\ tx = opened
           /\ ~truthy(call.key) => inserted_under(0) /\ exc # "ValueError"
           /\ named_parents # {}
                => \E q \in named_parents : inserted_under(q.collectionID)

\* create_collection was called with the empty string as parent key and
\* inserted a root collection without raising
EmptyParentReached ==
    /\ created_by_tool
    /\ call.key = <<>>
    /\ exc = "none"
    /\ inserted_under(0)

-----------------------------------------------------------------------------
(* Properties of linkItem and unlinkItem (specification Spec) *)

\* a tool has run add_to_collection or remove_from_collection in its session
linked_by_tool ==
    /\ pc = "exit"
    /\ prog = "tool"
    /\ call.op \in {"add_to_collection", "remove_from_collection"}

\* the item key and the collection key of the call name rows of the tables
\* the session began with
call_keys_exist ==
    /\ \E i \in opened.items : i.key = call.item
    /\ \E r \in opened.collections : r.key = call.key

\* C21: linkItem and unlinkItem raise the not-found error and change no row
\* when the item key or the node key names nothing; unlinkItem on an
\* existing item and node, in a write session, does not raise it and leaves
\* the tables as they were but for the link of the pair, which is gone.
LinkKeysMustExist ==
    linked_by_tool
        => /\ ~call_keys_exist => (exc = "ValueError" /\ tx = opened)
           /\ (call_keys_exist /\ call.op = "remove_from_collection" /\ conn = "rw")
                => /\ exc \in {"none", "OSError"}
                   /\ tx = [opened EXCEPT !.collectionItems =
                                @ \ links_of(opened, call.item, call.key)]

\* remove_from_collection was called in a write session for the item of the
\* library and a key of no collection, while the library had a link
UnlinkMissingNodeReached ==
    /\ linked_by_tool
    /\ conn = "rw"
    /\ call.op = "remove_from_collection"
    /\ call.item = ItemA
    /\ call.key = KeyZ
    /\ opened.collectionItems # {}
    /\ exc = "ValueError"

-----------------------------------------------------------------------------
(* Properties of the hierarchy (specification SpecBatch) *)

\* the ids that the parent links of the tables c lead to from the rows with
\* the given ids, in at most n steps
RECURSIVE ancestors(_, _, _)
ancestors(c, ids, n) ==
    IF n = 0 THEN {}
    ELSE The({up \cup ancestors(c, up, n - 1) :
              up \in {{r.parentCollectionID :
                          r \in {q \in c.collections : q.collectionID \in ids}} \ {0}}})

\* in the tables c no collection is its own ancestor
acyclic(c) ==
    \A r \in c.collections :
        r.collectionID \notin ancestors(c, {r.collectionID}, Cardinality(c.collections))

\* C22: in every state of a batch application, in the session's view and in
\* the database, no node is its own ancestor.
HierarchyAcyclic == acyclic(tx) /\ acyclic(db)

\* a batch was applied and committed, and the database has a node with two
\* ancestors, the last of which the session created
ChainCommitted ==
    /\ outcome = "done"
    /\ \E r \in db.collections \ opened.collections :
          Cardinality(ancestors(db, {r.collectionID}, Cardinality(db.collections))) = 2

\* the names on the parent chain of the row, from the root down to the row,
\* joined with "/"
RECURSIVE chain_path(_, _)
chain_path(c, row) ==
    LET parents == {r \in c.collections : r.collectionID = row.parentCollectionID}
    IN  IF row.parentCollectionID = 0 \/ parents = {} THEN row.collectionName
        ELSE The({up \o <<Slash>> \o row.collectionName :
                  up \in {chain_path(c, CHOOSE r \in parents : TRUE)}})

\* list_collections of the tables c returns the rows that are not in the
\* trash, each once, each with the path of its parent chain
lists_chain_paths(c) ==
    \E rows \in {list_collections(c)} :
        /\ {rows[n].collectionID : n \in 1..Len(rows)}
              = {r.collectionID : r \in c.collections} \ c.deletedCollections
        /\ Len(rows) = Cardinality({rows[n].collectionID : n \in 1..Len(rows)})
        /\ \A n \in 1..Len(rows) :
              \E r \in c.collections :
                 /\ r.collectionID = rows[n].collectionID
                 /\ rows[n].key = r.key
                 /\ rows[n].name = r.collectionName
                 /\ rows[n].path = chain_path(c, r)

\* C23: in every state listNodes, of the session's view and of the
\* database, returns exactly the nodes that are not soft-deleted, and the
\* path of each is the names of its parent chain, root first, joined with
\* "/".
ListNodesChainPaths == lists_chain_paths(tx) /\ lists_chain_paths(db)

-----------------------------------------------------------------------------
(* Properties of the listings of items (specification SpecRead) *)

\* the items that are not attachments, not notes and not in the trash
eligible(c) ==
    {i \in c.items : /\ i.itemID \notin c.itemAttachments
                     /\ i.itemID \notin c.itemNotes
                     /\ i.itemID \notin c.deletedItems}

\* the keys of the items of a listing
listed_keys(rows) == {r.key : r \in rows}

\* the listings returned so far by the tool o
listings(o) == {log[n].ret : n \in {m \in DOMAIN log : log[m].op = o}}

\* the two listings split the eligible items of c between them
partition(c, unfiled, filed) ==
    /\ \A i \in eligible(c) :
          (i.key \in listed_keys(unfiled)) # (i.key \in listed_keys(filed))
    /\ \A k \in listed_keys(unfiled) \cup listed_keys(filed) :
          \E i \in eligible(c) : i.key = k

\* C24: a listing of the unlinked items and a listing of the linked items,
\* read from the same library, split the eligible items (not an attachment,
\* not a note, not in the trash) between them: every eligible item is in
\* exactly one of the two and no other item is in either.
ListingsPartitionEligible ==
    \A u \in listings("list_unfiled_items") : \A f \in listings("list_filed_items") :
        partition(db, u, f)

-----------------------------------------------------------------------------
(* What the operations delete (specification SpecBatch) *)

\* every node, item, tag and item-tag association of c is in d, and d has no
\* node in the trash that c has not
keeps_rows(c, d) ==
    /\ c.collections \subseteq d.collections
    /\ c.items \subseteq d.items
    /\ c.tags \subseteq d.tags
    /\ c.itemTags \subseteq d.itemTags
    /\ d.deletedCollections \subseteq c.deletedCollections

\* l links the item with the key item_key to a node with the key collection_key
links_pair(c, l, item_key, collection_key) ==
    /\ \E i \in c.items : i.key = item_key /\ i.itemID = l.itemID
    /\ \E r \in c.collections : r.key = collection_key /\ r.collectionID = l.collectionID

\* l links the pair that the move e names: its item and the node of its
\* current_path in the snapshot
unlinked_by_move(c, l, e) ==
    links_pair(c, l, e.f.item_key.s, first_with_path(existing_collections, e.f.current_path.s))

\* one step: the database keeps its rows, and so does the session's view while
\* the session lasts; a link leaves the view only in the turn of a move that
\* names its pair, and leaves the database only when such a batch is committed
deletes_only_named_links ==
    /\ keeps_rows(db, db')
    /\ \A l \in db.collectionItems \ db'.collectionItems :
          /\ prog = "reorganization"
          /\ \E n \in 1..Len(data.f.moves.l) : unlinked_by_move(db, l, data.f.moves.l[n])
    /\ started' = started =>
          /\ keeps_rows(tx, tx')
          /\ \A l \in tx.collectionItems \ tx'.collectionItems :
                /\ prog = "reorganization"
                /\ pc = "entries"
                /\ unlinked_by_move(tx, l, data.f.moves.l[idx])

\* C25: no step of a batch application, and so no createNode, linkItem,
\* unlinkItem or addTags it runs, removes a node, an item, a tag or an
\* item-tag association or puts a node in the trash; the only rows deleted
\* are link rows, and only those of the pair that an unlinkItem names.
DeletesOnlyNamedLinks == [][deletes_only_named_links]_vars

\* a reorganization was committed that unlinked the item from the node it was
\* in and linked it to another
MoveCommitted ==
    /\ prog = "reorganization"
    /\ outcome = "done"
    /\ opened.collectionItems \ db.collectionItems # {}
    /\ db.collectionItems \ opened.collectionItems # {}

-----------------------------------------------------------------------------
(* The empty batch (specification SpecBatch) *)

\* d is an object whose field under key is the empty list
empty_under(d, key) ==
    /\ d.t = "obj"
    /\ key \in DOMAIN d.f
    /\ d.f[key].t = "list"
    /\ d.f[key].l = <<>>

\* the program that runs was given an empty batch
empty_batch ==
    \/ prog = "suggestions" /\ empty_under(data, "items")
    \/ prog = "reorganization" /\ empty_under(data, "moves")

\* C26: from any state, applying a batch whose list of items or of moves is
\* empty completes without raising an error and leaves the catalog unchanged.
EmptyBatchIsNoOp ==
    empty_batch =>
        /\ outcome \in {"running", "done"}
        /\ exc = "none"
        /\ tx = opened
        /\ db = opened

-----------------------------------------------------------------------------
(* Properties of the validators (specification SpecValidate) *)

\* a batch validator returned
batch_validated == prog \in {"validate_suggestions", "validate_reorganization"}

\* the key under which the validator that returned looks for the entries
batch_key == IF prog = "validate_suggestions" THEN "items" ELSE "moves"

\* d is an object that has no list under key: the key is missing, or its
\* value is null or of another type
no_list_under(d, key) ==
    /\ d.t = "obj"
    /\ key \notin DOMAIN d.f \/ d.f[key].t # "list"

\* C27: a validator returns no error for a descriptor whose items (moves) key
\* holds the empty list, and at least one error for a descriptor whose key is
\* missing, null or no list.
EmptyListDistinguished ==
    batch_validated =>
        /\ empty_under(data, batch_key) => log[1] = <<>>
        /\ no_list_under(data, batch_key) => log[1] # <<>>

\* validate_suggestions returned for the descriptor {"items": []}
EmptyListValidated ==
    /\ prog = "validate_suggestions"
    /\ empty_under(data, "items")
    /\ log[1] = <<>>

\* v is a string of exactly 8 characters, each in [A-Z0-9]
well_formed_key(v) ==
    /\ v.t = "str"
    /\ Len(v.s) = KeyLen
    /\ \A i \in 1..Len(v.s) : v.s[i] \in Upper \cup Digit

\* v is a string that is not blank and, where the depth is limited, has at
\* most 3 segments
well_formed_path(v, limited) ==
    /\ v.t = "str"
    /\ strip(v.s) # <<>>
    /\ limited => Len(split(v.s)) <= MaxDepth

\* the constraints the object e violates on a field it must have
required_violations(e, field, ok) ==
    IF field \notin DOMAIN e.f \/ ~ok THEN {field} ELSE {}

\* the constraints the object e violates on tags: a list, of strings, of at
\* most 5
tags_violations(e) ==
    IF "tags" \notin DOMAIN e.f THEN {}
    ELSE IF e.f.tags.t # "list" THEN {"tags: list"}
    ELSE (IF \E i \in 1..Len(e.f.tags.l) : e.f.tags.l[i].t # "str"
          THEN {"tags: strings"} ELSE {})
         \cup (IF Len(e.f.tags.l) > MaxTags THEN {"tags: count"} ELSE {})

\* the constraints the object e violates on a text it may have
text_violations(e, field) ==
    IF field \in DOMAIN e.f /\ e.f[field].t # "str" THEN {field} ELSE {}

\* the constraints of the file format that the entry e violates
violations(e, reorganization) ==
    IF e.t # "obj" THEN {"object"}
    ELSE required_violations(e, "item_key",
                             "item_key" \in DOMAIN e.f /\ well_formed_key(e.f.item_key))
         \cup (IF reorganization
               THEN required_violations(e, "current_path",
                        "current_path" \in DOMAIN e.f
                        /\ well_formed_path(e.f.current_path, FALSE))
                    \cup required_violations(e, "new_path",
                        "new_path" \in DOMAIN e.f /\ well_formed_path(e.f.new_path, TRUE))
               ELSE required_violations(e, "collection_path",
                        "collection_path" \in DOMAIN e.f
                        /\ well_formed_path(e.f.collection_path, TRUE))
                    \cup tags_violations(e))
         \cup text_violations(e, "title") \cup text_violations(e, "reasoning")

\* the messages of the returned list that are prefixed with the index i
messages_of(i) == {n \in DOMAIN log[1] : log[1][n].entry = <<i>>}

\* C28: for a descriptor with a list of entries the returned list has as many
\* messages prefixed with the index of an entry as the entry violates
\* constraints, one for each, and no other message.
OneMessagePerViolation ==
    (batch_validated /\ ~no_list_under(data, batch_key) /\ data.t = "obj") =>
        /\ \A i \in 1..Len(data.f[batch_key].l) :
              Cardinality(messages_of(i - 1)) =
                  Cardinality(violations(data.f[batch_key].l[i],
                                         prog = "validate_reorganization"))
        /\ \A n \in DOMAIN log[1] :
              \E i \in 1..Len(data.f[batch_key].l) : log[1][n].entry = <<i - 1>>

\* the texts of the messages about item_key
KeyTexts ==
    {<<"missing 'item_key'">>, <<"'item_key' must be a string">>,
     <<"'item_key' must be 8 uppercase alphanumeric characters">>}

\* the messages about the item_key of the entry with the index i
key_messages_of(i) == {n \in messages_of(i) : log[1][n].text \in KeyTexts}

\* C29: validate_item_key returns no error exactly for a string of 8
\* characters of [A-Z0-9] and one error for every other value, and so does
\* the item_key check of both batch validators for every entry that has an
\* item_key.
ItemKeyFormat ==
    /\ prog = "validate_item_key" => (log[1] = NoError <=> well_formed_key(data))
    /\ (batch_validated /\ ~no_list_under(data, batch_key) /\ data.t = "obj") =>
          \A i \in 1..Len(data.f[batch_key].l) :
              \E e \in {data.f[batch_key].l[i]} :
                  (e.t = "obj" /\ "item_key" \in DOMAIN e.f) =>
                      Cardinality(key_messages_of(i - 1)) =
                          IF well_formed_key(e.f.item_key) THEN 0 ELSE 1

\* the messages about the path field of the entry with the index i
path_messages_of(i, field) ==
    {n \in messages_of(i) : Len(log[1][n].text) = 2 /\ log[1][n].text[2] = field}

\* the field of an entry that holds the path limited in depth
limited_path == IF prog = "validate_suggestions" THEN "collection_path" ELSE "new_path"

\* the entry e with the index i: a path of more than 3 segments under the
\* limited field has exactly one message, which is about the depth, and a
\* current_path that is a string and not blank has none
entry_paths_checked(i, e) ==
    /\ (/\ limited_path \in DOMAIN e.f
        /\ well_formed_path(e.f[limited_path], FALSE)
        /\ Len(split(e.f[limited_path].s)) > MaxDepth) =>
            /\ Cardinality(path_messages_of(i, limited_path)) = 1
            /\ \A n \in path_messages_of(i, limited_path) :
                  log[1][n].text[1] = "exceeds max 3 levels"
    /\ (/\ prog = "validate_reorganization"
        /\ "current_path" \in DOMAIN e.f
        /\ well_formed_path(e.f.current_path, FALSE)) =>
            path_messages_of(i, "current_path") = {}

\* C30: validate_collection_path returns an error exactly when the value is
\* no string, is blank, or has more than 3 segments; in a batch a path of 4
\* segments under collection_path or new_path gets exactly one message, about
\* the depth, and a current_path that is a non-blank string gets none,
\* whatever its depth.
PathDepthChecked ==
    /\ prog = "validate_collection_path" =>
          (log[1] # NoError <=> ~well_formed_path(data, TRUE))
    /\ (batch_validated /\ ~no_list_under(data, batch_key) /\ data.t = "obj") =>
          \A i \in 1..Len(data.f[batch_key].l) :
              \E e \in {data.f[batch_key].l[i]} :
                  e.t = "obj" => entry_paths_checked(i - 1, e)

\* validate_reorganization returned for a move whose current_path and
\* new_path both have 4 segments: one message, about new_path
DeepCurrentPathAccepted ==
    /\ prog = "validate_reorganization"
    /\ data = Obj([moves |-> List(<<Move(ItemA, PathDeep, PathDeep)>>)])
    /\ Len(log[1]) = 1
    /\ log[1][1].text = <<"exceeds max 3 levels", "new_path">>

-----------------------------------------------------------------------------
(* A batch of one suggestion applied to a library without collections
   (specification SpecBatch) *)

\* apply_suggestions was given one valid entry for an item of the library,
\* opened its session over a library without collections, and has ended
single_suggestion_ended ==
    /\ prog = "suggestions"
    /\ pc = "idle"
    /\ outcome \in {"done", "aborted"}
    /\ Len(data.f.items.l) = 1
    /\ opened.collections = {}
    /\ \E i \in opened.items : i.key = data.f.items.l[1].f.item_key.s

\* the rows of c that no other row has as its parent
leaves(c) ==
    {r \in c.collections :
        ~\E q \in c.collections : q.parentCollectionID = r.collectionID}

\* the rows of c form one parent chain: one root, and every row is the parent
\* of at most one row, which is in c
one_chain(c) ==
    /\ Cardinality({r \in c.collections : r.parentCollectionID = 0}) = 1
    /\ Cardinality(leaves(c)) = 1
    /\ \A r \in c.collections :
          r.parentCollectionID # 0 =>
              \E q \in c.collections : q.collectionID = r.parentCollectionID
    /\ acyclic(c)

\* the paths listNodes derives for the rows of c
derived_paths(c) ==
    {row.path : row \in {list_collections(c)[n] : n \in DOMAIN list_collections(c)}}

\* the database after the entry e: as many nodes as the path has segments, in
\* one chain, with the prefixes of the path as derived paths; one link, of
\* the item to the leaf; one association per distinct tag
single_suggestion_applied(e) ==
    /\ outcome = "done"
    /\ Cardinality(db.collections) = Len(split(e.f.collection_path.s))
    /\ one_chain(db)
    /\ derived_paths(db) = prefixes(e.f.collection_path.s) \cup {e.f.collection_path.s}
    /\ Cardinality(db.collectionItems \ opened.collectionItems) = 1
    /\ \A l \in db.collectionItems \ opened.collectionItems :
          /\ \E i \in db.items : i.key = e.f.item_key.s /\ i.itemID = l.itemID
          /\ \E r \in leaves(db) : r.collectionID = l.collectionID
    /\ Cardinality(db.itemTags \ opened.itemTags) =
          Cardinality({tags_of(e)[n] : n \in DOMAIN tags_of(e)})
    /\ \A n \in DOMAIN tags_of(e) :
          \E a \in db.itemTags, t \in db.tags, i \in db.items :
              /\ i.key = e.f.item_key.s
              /\ t.name = tags_of(e)[n]
              /\ a.itemID = i.itemID
              /\ a.tagID = t.tagID

\* C31: a valid batch of one suggestion for an item of the library, applied
\* to a library without collections, commits and leaves as many nodes as its
\* path has segments, in one parent chain whose derived paths are the
\* prefixes of the path, exactly one link, of the item to the leaf, and
\* exactly one item-tag association per distinct tag.
SingleSuggestionBuildsChain ==
    single_suggestion_ended => single_suggestion_applied(data.f.items.l[1])

-----------------------------------------------------------------------------
(* The lifecycle of a batch (specification SpecBatchLive) *)

\* an applier was given a valid batch with at least one entry
valid_batch_begun ==
    /\ prog \in {"suggestions", "reorganization"}
    /\ outcome \notin {"none", "invalid"}
    /\ Len(entries_of(prog, data)) > 0

\* the session of the batch is closed, after a commit or after a rollback
batch_closed == outcome \in {"done", "aborted"} /\ conn = "none"

\* one step of a batch whose session was opened: a turn of the loop is the
\* turn of the next entry of the descriptor; the session is closed by a
\* commit when no exception left the block and by a rollback otherwise; once
\* closed, the session stays closed and the database as it is
lifecycle_step ==
    /\ Len(log') > Len(log) =>
          /\ Len(log') = Len(log) + 1
          /\ idx = Len(log')
          /\ log'[idx].item = entries_of(prog, data)[idx].f.item_key.s
    /\ (conn = "rw" /\ conn' = "none") =>
          /\ outcome' \in {"done", "aborted"}
          /\ outcome' = "done" => (exc = "none" /\ db' = tx)
          /\ outcome' = "aborted" => (exc # "none" /\ db' = opened)
    /\ batch_closed => (batch_closed' /\ db' = db /\ gate' = gate)

\* what holds of every state and step of a valid batch whose session opened
lifecycle_safety ==
    /\ [](valid_batch_begun /\ outcome # "busy" => gate = 1)
    /\ [](valid_batch_begun /\ outcome = "running" => conn = "rw")
    /\ [][valid_batch_begun' /\ valid_batch_begun /\ outcome # "busy" => lifecycle_step]_vars

\* C32 (as stated): every valid batch with at least one entry opens exactly
\* one read-write session, goes through its entries in the order of the
\* descriptor, and ends with the session closed after one commit or one
\* rollback.
BatchLifecycle ==
    /\ lifecycle_safety
    /\ [](valid_batch_begun => gate = 1)
    /\ valid_batch_begun ~> batch_closed

\* C32 (amended): a valid batch with at least one entry either is refused by
\* connect because the owner holds the database, and then no session is
\* opened and nothing is committed or rolled back, or opens exactly one
\* read-write session, goes through its entries in the order of the
\* descriptor, and ends with the session closed after one commit or one
\* rollback.
BatchLifecycleUnlessBusy ==
    /\ lifecycle_safety
    /\ [](valid_batch_begun /\ outcome = "busy" =>
            gate = 0 /\ conn = "none" /\ db = opened /\ log = <<>>)
    /\ (valid_batch_begun /\ outcome # "busy") ~> batch_closed

\* a batch of MaxBatch entries was gone through and committed what it wrote
BatchCommitted ==
    /\ valid_batch_begun
    /\ batch_closed
    /\ outcome = "done"
    /\ Len(log) = MaxBatch
    /\ gate = 1
    /\ db = tx
    /\ db # opened

-----------------------------------------------------------------------------
(* Moves of a reorganization (specification SpecBatch) *)

\* the links of the item with the key item_key in the tables c
item_links(c, item_key) ==
    {l \in c.collectionItems : \E i \in c.items : i.key = item_key /\ i.itemID = l.itemID}

\* the turn of a move that was applied leaves the item linked to the node of
\* new_path, and an item that had a link before the turn has one after it
move_keeps_item_linked ==
    (/\ prog = "reorganization"
     /\ Len(log') = Len(log) + 1
     /\ log'[Len(log')].status = "applied") =>
        /\ links_of(tx', log'[Len(log')].item, log'[Len(log')].leaf) # {}
        /\ item_links(tx, log'[Len(log')].item) # {} =>
              item_links(tx', log'[Len(log')].item) # {}

\* C33: when the turn of a move has applied the move, the item is linked to
\* the node of new_path, whatever current_path and new_path are, and an item
\* that was linked before the move is not left without a link.
AppliedMoveLinksItem == [][move_keeps_item_linked]_vars


-----------------------------------------------------------------------------
(* A move whose current_path is not in the snapshot *)

\* the move the loop of apply_reorganization is about to take names a
\* current_path that no row of the snapshot has
current_path_unmatched ==
    /\ pc = "entries"
    /\ prog = "reorganization"
    /\ first_with_path(existing_collections, data.f.moves.l[idx].f.current_path.s) = None

skipped_move_is_idle ==
    current_path_unmatched =>
        /\ Len(log') = Len(log) + 1
        /\ log'[Len(log')].status = "skipped"
        /\ log'[Len(log')].created = <<>>
        /\ tx' = tx
        /\ collection_keys' = collection_keys

\* C34: a move that is skipped because its current_path matches no row of
\* the snapshot changes nothing: no collection is created for any prefix of
\* new_path, no link is added or removed, and the dictionary of the
\* collections created in this session stays as it was
SkippedMoveMutatesNothing == [][skipped_move_is_idle]_vars

\* a first move was skipped for its current_path although its new_path names
\* a collection the snapshot does not have either
MoveSkippedBeforeHierarchy ==
    /\ prog = "reorganization"
    /\ outcome = "running"
    /\ Len(log) >= 1
    /\ log[1].status = "skipped"
    /\ first_with_path(existing_collections, data.f.moves.l[1].f.current_path.s) = None
    /\ first_with_path(existing_collections, data.f.moves.l[1].f.new_path.s) = None


-----------------------------------------------------------------------------
(* The same suggestions file applied twice *)

\* apply_suggestions run again on the file of the session that has just
\* committed: a new connection, a new snapshot of the collections
ApplySuggestionsAgain ==
    /\ pc = "idle"
    /\ started = 1
    /\ prog = "suggestions"
    /\ outcome = "done"
    /\ LET b == begin_suggestions(data, owner, backups, clock, db)
       IN  Enter(b, "suggestions", data,
                 IF b.outcome = "running" THEN data.f.items.l ELSE <<>>,
                 path_dict(list_collections(db)))

NextReapply ==
    \/ \E d \in SuggestionBatches : ApplySuggestions(d)
    \/ ApplySuggestionsAgain
    \/ SuggestionEntry
    \/ Exit

SpecReapply == InitBatch /\ [][NextReapply]_vars

\* the second session over the same file has committed
reapplied ==
    /\ started = 2
    /\ prog = "suggestions"
    /\ pc = "idle"
    /\ outcome = "done"

\* C35: applying a valid suggestions file again, in a second session that
\* takes a fresh snapshot and commits, leaves the library exactly as the
\* first session left it: no further collection, link, tag or item-tag row
ReapplyChangesNothing == reapplied => db = opened


-----------------------------------------------------------------------------
(* Resolution and listing as a round trip *)

\* the paths under which the listing rows shows the collection key
listed_paths(rows, key) == {rows[i].path : i \in {j \in 1..Len(rows) : rows[j].key = key}}

\* a session of apply_suggestions has committed
suggestions_committed ==
    /\ prog = "suggestions"
    /\ pc = "idle"
    /\ outcome = "done"

\* C36: once a session that resolved the path P to the key k has committed,
\* a fresh listing shows k under the path P, and every key the session
\* dictionary holds under path_so_far is listed under path_so_far
ResolveListRoundTrip ==
    suggestions_committed =>
        /\ \A i \in 1..Len(log) :
              listed_paths(list_collections(db), log[i].leaf) = {log[i].path}
        /\ \A q \in DOMAIN collection_keys :
              listed_paths(list_collections(db), collection_keys[q]) = {q}


-----------------------------------------------------------------------------
(* The three resolution loops side by side *)

\* sessions that resolve lists of paths, over a library with one collection
\* A and a library with two collections of the path A
InitResolve ==
    /\ \E c \in {CatalogA, CatalogDup} : InitFrom(c)
    /\ owner = FALSE

NextResolve ==
    \/ \E d \in PathLists, cache \in Caches(db) : ResolvePaths(d, cache)
    \/ HierarchyEntry
    \/ Exit

SpecResolve == InitResolve /\ [][NextResolve]_vars

\* the create_collection(name, parent_key) calls of a resolution, in order
create_calls(r) == [i \in 1..Len(r.created) |-> <<r.created[i].name, r.created[i].parent>>]

\* a session is about to resolve its next path
next_path_pending ==
    /\ pc = "entries"
    /\ prog = "paths"

\* the next path resolved by utils.build_collection_hierarchy
by_hierarchy ==
    build_collection_hierarchy(data.l[idx].s, existing_collections, collection_keys, tx, conn)

\* the next path resolved by the loop of apply_suggestions, whose dictionary
\* is the snapshot's paths and the collections created so far
by_suggestions ==
    resolve_suggestion(data.l[idx].s,
                       dict_update(path_dict(existing_collections), collection_keys),
                       tx, conn)

\* the next path resolved by the loop of apply_reorganization
by_reorganization ==
    resolve_move(data.l[idx].s, existing_collections, collection_keys, tx, conn)

\* C37: from the same snapshot, the same collections created so far and the
\* same tables, utils.build_collection_hierarchy, the loop of
\* apply_suggestions and the loop of apply_reorganization return the same
\* leaf key for the next path and make the same create_collection calls
ResolversAgree ==
    next_path_pending =>
        /\ by_hierarchy.leaf = by_suggestions.leaf
        /\ by_hierarchy.leaf = by_reorganization.leaf
        /\ create_calls(by_hierarchy) = create_calls(by_suggestions)
        /\ create_calls(by_hierarchy) = create_calls(by_reorganization)


-----------------------------------------------------------------------------
(* The two copies of each batch validator *)

\* C38: utils.validate_suggestions returns for every descriptor the list of
\* messages, in the same order, that apply_suggestions.validate_suggestions
\* returns, and utils.validate_reorganization the list that
\* apply_reorganization.validate_reorganization returns
ValidatorCopiesAgree ==
    /\ prog = "utils.validate_suggestions" => log[1] = validate_suggestions(data)
    /\ prog = "validate_suggestions" => log[1] = utils_validate_suggestions(data)
    /\ prog = "utils.validate_reorganization" => log[1] = validate_reorganization(data)
    /\ prog = "validate_reorganization" => log[1] = utils_validate_reorganization(data)

\* utils.validate_suggestions returned two or more messages for an entry
\* with tags, the messages of the other copy
SeveralMessagesFromBothCopies ==
    /\ prog = "utils.validate_suggestions"
    /\ Len(log[1]) >= 2
    /\ log[1] = validate_suggestions(data)
    /\ data.t = "obj"
    /\ "tags" \in DOMAIN data.f.items.l[1].f


-----------------------------------------------------------------------------
(* cleanup_duplicates.py over hierarchies with duplicates at several levels *)

\* the collections of a library the cleanup starts from
MaxNodes == 4

\* the library of two items with the collections 1..MaxNodes, named A or B,
\* each a root or the child of an earlier one, the first item in the
\* collection k1 and the second in k2
Hierarchy(names, parents, k1, k2) ==
    [TwoItems(EmptyCatalog) EXCEPT
        !.collections = {[collectionID |-> i, collectionName |-> names[i],
                          parentCollectionID |-> parents[i], key |-> KeyPool[i]] :
                         i \in 1..MaxNodes},
        !.collectionItems = {[collectionID |-> k1, itemID |-> 1, orderIndex |-> 0],
                             [collectionID |-> k2, itemID |-> 2,
                              orderIndex |-> IF k2 = k1 THEN 1 ELSE 0]}]

Hierarchies ==
    {Hierarchy(names, parents, k1, k2) :
        names \in [1..MaxNodes -> {NameA, NameB}],
        parents \in {f \in [1..MaxNodes -> 0..(MaxNodes - 1)] :
                        \A i \in 1..MaxNodes : f[i] < i},
        k1 \in 1..MaxNodes, k2 \in 1..MaxNodes}

InitCleanup ==
    /\ \E c \in Hierarchies : InitFrom(c)
    /\ owner = FALSE

NextCleanup ==
    \/ CleanupDuplicates
    \/ Exit

SpecCleanup == InitCleanup /\ [][NextCleanup]_vars

\* the session of cleanup_duplicate_collections has committed
cleanup_committed ==
    /\ prog = "cleanup"
    /\ pc = "idle"
    /\ outcome = "done"

\* no two rows of the listing have the same path
paths_distinct(rows) ==
    \A i \in 1..Len(rows) : \A j \in 1..Len(rows) : i # j => rows[i].path # rows[j].path

\* every link of the library before to a collection listed with the path p
\* has a link of the same item, in the library after, to a collection listed
\* with the path p
links_follow_paths(before, after) ==
    \A l \in before.collectionItems :
        \A r \in {list_collections(before)[i] : i \in 1..Len(list_collections(before))} :
            r.collectionID = l.collectionID =>
                \E q \in {list_collections(after)[i] : i \in 1..Len(list_collections(after))} :
                    /\ q.path = r.path
                    /\ \E m \in after.collectionItems :
                          m.itemID = l.itemID /\ m.collectionID = q.collectionID

\* C39: after cleanup_duplicate_collections has committed, whatever the
\* hierarchy it started from, no two collections that are not in the trash
\* are listed with the same path, and every item that was in a collection
\* listed with the path p is in the collection kept for p
CleanupLeavesOnePerPath ==
    cleanup_committed =>
        /\ paths_distinct(list_collections(db))
        /\ links_follow_paths(opened, db)

====
